---------------------------- MODULE Spec2Model ----------------------------
(***************************************************************************)
(* MCP connector: the capability reconciler.                               *)
(*                                                                         *)
(* createAgentBuilderTools (the connector's post-save hook) and the        *)
(* POST /mcp/servers/{id}/tools route both diff a selection of capability  *)
(* names against the MCP tools the tool registry holds for a connector,    *)
(* and delete / create registry entries.  Every await of the handlers is   *)
(* one step of the model, so that concurrent invocations interleave as     *)
(* they do on the event loop.                                              *)
(*                                                                         *)
(* Strings are sequences of one-character strings, so that the id          *)
(* template, deriveServerName and snakeCase are computed, not assumed.     *)
(***************************************************************************)
EXTENDS Naturals, Sequences, FiniteSets, TLC

(***************************************************************************)
(* Bounds of the model.                                                    *)
(***************************************************************************)
\* invocations (hook or route) in one behaviour of Spec
MaxPasses == 2
\* failures injected by the environment (registry, actions client, server)
MaxFailures == 1
\* invocations in one behaviour of SpecNoFaults, where nothing fails
DeepPasses == 3

(***************************************************************************)
(* Strings.                                                                *)
(***************************************************************************)
Lower == {"a", "b", "c", "d", "e", "f", "g", "h", "i", "j", "k", "l", "m",
          "n", "o", "p", "q", "r", "s", "t", "u", "v", "w", "x", "y", "z"}
Upper == {"A", "M", "H"}
Digit == {"2"}

ToLowerChar(ch) ==
  CASE ch = "A" -> "a"
    [] ch = "M" -> "m"
    [] ch = "H" -> "h"
    [] OTHER -> ch

ToLower(s) == [i \in 1..Len(s) |-> ToLowerChar(s[i])]

IsAlnum(ch) == ch \in Lower \cup Upper \cup Digit

\* s.split(sep): the list of the pieces of s between occurrences of sep
RECURSIVE SplitAcc(_, _, _, _)
SplitAcc(s, sep, cur, acc) ==
  IF s = <<>> THEN Append(acc, cur)
  ELSE IF Head(s) = sep THEN SplitAcc(Tail(s), sep, <<>>, Append(acc, cur))
  ELSE SplitAcc(Tail(s), sep, Append(cur, Head(s)), acc)

Split(s, sep) == SplitAcc(s, sep, <<>>, <<>>)

\* parts.join(sep)
RECURSIVE Join(_, _)
Join(parts, sep) ==
  IF parts = <<>> THEN <<>>
  ELSE IF Len(parts) = 1 THEN parts[1]
  ELSE parts[1] \o <<sep>> \o Join(Tail(parts), sep)

\* hostname.replace(/^(www|api|mcp)\./, '')
StripPrefix(h) ==
  IF /\ Len(h) >= 4
     /\ SubSeq(h, 1, 4) \in { <<"w", "w", "w", ".">>, <<"a", "p", "i", ".">>,
                              <<"m", "c", "p", ".">> }
  THEN SubSeq(h, 5, Len(h))
  ELSE h

\* serverName.replace(/[^a-z0-9]/g, '-')
Sanitize(s) ==
  [i \in 1..Len(s) |-> IF s[i] \in Lower \cup Digit THEN s[i] ELSE "-"]

McpServerFallback == <<"m", "c", "p", "-", "s", "e", "r", "v", "e", "r">>

\* url: the outcome of `new URL(url)`: [ok |-> FALSE] when it throws,
\* otherwise its hostname
deriveServerName(url) ==
  IF ~url.ok THEN McpServerFallback
  ELSE LET hostname == StripPrefix(ToLower(url.hostname))
           parts == Split(hostname, ".")
           serverName == IF Len(parts) > 1 THEN parts[Len(parts) - 1]
                         ELSE parts[1]
       IN  Sanitize(serverName)

\* lodash words(): maximal runs of letters or of digits, a new word at a
\* lower-to-upper boundary; everything else separates words
WordBreak(prev, ch) ==
  \/ (prev \in Lower \cup Upper) /\ ch \in Digit
  \/ prev \in Digit /\ (ch \in Lower \cup Upper)
  \/ prev \in Lower /\ ch \in Upper

RECURSIVE WordsAcc(_, _, _)
WordsAcc(s, cur, acc) ==
  IF s = <<>> THEN (IF cur = <<>> THEN acc ELSE Append(acc, cur))
  ELSE LET ch == Head(s) IN
       IF ~IsAlnum(ch)
       THEN WordsAcc(Tail(s), <<>>, IF cur = <<>> THEN acc ELSE Append(acc, cur))
       ELSE IF cur # <<>> /\ WordBreak(cur[Len(cur)], ch)
       THEN WordsAcc(Tail(s), <<ch>>, Append(acc, cur))
       ELSE WordsAcc(Tail(s), Append(cur, ch), acc)

Words(s) == WordsAcc(s, <<>>, <<>>)

\* lodash snakeCase: the lower-cased words joined by '_'
snakeCase(s) ==
  LET ws == Words(s)
  IN  Join([i \in 1..Len(ws) |-> ToLower(ws[i])], "_")

McpPrefix == <<"m", "c", "p", ".">>

\* `mcp.${namespace}.${toolName}`
ToolIdOf(namespace, toolName) == McpPrefix \o namespace \o <<".">> \o toolName


(***************************************************************************)
(* The scenario: connectors, capability names, the remote server.          *)
(***************************************************************************)
\* capability (tool) names
A == <<"a">>
B == <<"b">>
C == <<"c">>
Names == {A, B, C}

\* connectors of type .mcp, and one connector of another type
McpConnectors == {"X", "Y"}
OtherConnectors == {"W"}
Connectors == McpConnectors \cup OtherConnectors

MCP_CONNECTOR_TYPE_ID == ".mcp"

ActionTypeId(x) == IF x \in McpConnectors THEN MCP_CONNECTOR_TYPE_ID ELSE ".webhook"

\* config.url of a connector, as `new URL` reads it
ConnectorUrl(x) ==
  IF x = "X"
  THEN [ok |-> TRUE,
        hostname |-> <<"m", "c", "p", ".", "a", "c", "m", "e", ".", "c", "o", "m">>]
  ELSE [ok |-> TRUE,
        hostname |-> <<"a", "p", "i", ".", "A", "c", "m", "e", ".", "i", "o">>]

\* connector.name
ConnectorName(x) ==
  IF x = "X" THEN <<"M", "y", " ", "A", "c", "m", "e">>
  ELSE <<"a", "c", "m", "e">>

\* the description the remote server gives a capability, "" when it gives none
ServerDescription(name) == IF name = B THEN "" ELSE "server"

\* `MCP tool: ${toolName}`
GenericDescription == "generic"

\* the selected_tools / toolIds arrays the handlers are called with
Selections == {<<>>, <<A, C>>, <<A, B>>, <<B, A>>}

\* config.selected_tools: undefined, or an array
Missing == [present |-> FALSE, items |-> <<>>]
Selected(q) == [present |-> TRUE, items |-> q]
SelectedTools == {Selected(q) : q \in Selections} \cup {Missing}

Range(q) == {q[i] : i \in 1..Len(q)}

\* Array.from(new Set(q)): first occurrences, in order
RECURSIVE Dedupe(_)
Dedupe(q) ==
  IF q = <<>> THEN <<>>
  ELSE LET front == Dedupe(SubSeq(q, 1, Len(q) - 1))
           last == q[Len(q)]
       IN  IF last \in Range(front) THEN front ELSE Append(front, last)

\* the orders in which a finite set can be listed
Perms(S) ==
  {q \in [1..Cardinality(S) -> S] : \A i, j \in 1..Cardinality(S) : i # j => q[i] # q[j]}

(***************************************************************************)
(* State.                                                                  *)
(***************************************************************************)
VARIABLES
  registry,                    \* the persisted tools: a set of tool records
  connectorConfig,             \* connector id -> its saved config
  inProgressConnectorUpdates,  \* the module-level Set of part_006
  procs,                       \* invocation -> its locals, position and log
  started,                     \* invocations begun so far
  failures,                    \* failures injected so far
  connectors,                  \* the connectors the actions framework holds
  client,                      \* the fields of one MCP client instance
  calls,                       \* call on the client -> its operation and position
  wire,                        \* what the client last sent and received, and counts
  exec,                        \* one call of executeMcpTool: arguments, position, return
  conv                         \* one use of convertMcpSchemaToZod: schema, validator, parse

clientVars == <<client, calls, wire>>
bridgeVars == <<exec, conv>>

vars ==
  <<registry, connectorConfig, inProgressConnectorUpdates, procs, started, failures,
    connectors, client, calls, wire, exec, conv>>

Procs == 1..DeepPasses

IdleProc ==
  [kind |-> "none", conn |-> "", pc |-> "idle", sel |-> <<>>, selPresent |-> TRUE,
   wasSuccessful |-> TRUE, busy |-> FALSE, actionsAvail |-> TRUE,
   namespace |-> <<>>, listed |-> <<>>, toDelete |-> <<>>, toCreate |-> <<>>,
   discovered |-> FALSE, finalIds |-> {}, wrote |-> FALSE, writtenIds |-> {}, log |-> <<>>,
   existingConfig |-> [selected_tools |-> Missing, created_tool_ids |-> {}],
   nested |-> "none", quietStart |-> FALSE, quietEnd |-> FALSE, outcome |-> "none"]

Tool(id, x, name, desc) ==
  [id |-> id, type |-> "mcp", description |-> desc, connector_id |-> x, tool_name |-> name]

(***************************************************************************)
(* The MCP client at construction (mcp_sdk_client.ts lines 51-85, and the  *)
(* earlier McpClient of part_001, lines 41-80).                            *)
(***************************************************************************)
MaxCalls == 3

Calls == 1..MaxCalls

\* @modelcontextprotocol/sdk/types.js, imported at mcp_sdk_client.ts line 12
DEFAULT_NEGOTIATED_PROTOCOL_VERSION == "2025-03-26"

SUPPORTED_PROTOCOL_VERSIONS == {"2025-06-18", "2025-03-26", "2024-11-05", "2024-10-07"}

\* the value of a field that was never assigned
Undefined == "undefined"

\* lines 53-56: the fields of a new instance; impl tells the two classes apart
NewClient(impl) ==
  [impl |-> impl, initialized |-> FALSE,
   protocolVersion |-> DEFAULT_NEGOTIATED_PROTOCOL_VERSION, sessionId |-> Undefined]

NoRequest ==
  [method |-> "none", id |-> 0, accept |-> "none", version |-> "none", session |-> "none"]

\* sent: the request this call is waiting on
IdleCall ==
  [op |-> "none", pc |-> "idle", reqId |-> 0, attempt |-> 0, status |-> "none",
   sent |-> NoRequest]

NoHeader == [kind |-> "absent", vals |-> <<>>]

NoBody == [t |-> "null", items |-> <<>>, lines |-> <<>>]

NoResponse ==
  [transport |-> TRUE, contentType |-> "none", body |-> NoBody, session |-> NoHeader]

NoResult == [status |-> "none", payload |-> "none"]

NoWire ==
  [issued |-> 0, requests |-> 0, handshakes |-> 0, handshakeOks |-> 0,
   lastRequest |-> NoRequest, lastResponse |-> NoResponse, lastFor |-> NoRequest,
   lastResult |-> NoResult]

(***************************************************************************)
(* executeMcpTool and convertMcpSchemaToZod before they are used.          *)
(***************************************************************************)
\* result.data of a tools/call execution: null, or an object with an optional
\* content and an optional other key
NoContent == [kind |-> "absent", blocks |-> <<>>, text |-> <<>>]
NullData == [t |-> "null", content |-> NoContent, note |-> <<>>]

\* what actionsClient.execute gave: nothing yet, a rejection, or a result
NoOutcome == [kind |-> "none", message |-> "none", data |-> NullData]

\* what executeMcpTool gave back
NoReturn ==
  [threw |-> FALSE, type |-> "none", prefix |-> "none", detail |-> "none",
   content |-> <<>>, connectorId |-> "none", toolName |-> "none"]

IdleExec ==
  [pc |-> "idle", connectorId |-> "none", toolName |-> "none", outcome |-> NoOutcome,
   returned |-> NoReturn]

\* one property of an input schema and one field of a validator
NoProp == [kind |-> "absent", type |-> "none", items |-> "none", description |-> "none"]
NoField == [base |-> "none", item |-> "none", optional |-> FALSE, description |-> "none"]
NoSchema == [kind |-> "absent", type |-> "none", hasProperties |-> FALSE,
             prop |-> NoProp, required |-> [kind |-> "absent", names |-> {}]]
NoValidator == [threw |-> FALSE, made |-> FALSE, keys |-> {}, field |-> NoField]
NoArgs == [a |-> "absent", other |-> "absent"]

IdleConv ==
  [pc |-> "idle", schema |-> NoSchema, out |-> NoValidator, args |-> NoArgs,
   accepted |-> FALSE, parsed |-> NoArgs]

BridgeAtRest == exec = IdleExec /\ conv = IdleConv

ClientAtRest(impl) ==
  /\ client = NewClient(impl)
  /\ calls = [c \in Calls |-> IdleCall]
  /\ wire = NoWire

Init ==
  /\ ClientAtRest("sdk")
  /\ BridgeAtRest
  /\ registry = {}
  /\ connectorConfig = [x \in McpConnectors |-> [selected_tools |-> Missing, created_tool_ids |-> {}]]
  /\ inProgressConnectorUpdates = {}
  /\ procs = [p \in Procs |-> IdleProc]
  /\ started = 0
  /\ failures = 0
  /\ connectors = Connectors

CanFail == failures < MaxFailures

(***************************************************************************)
(* The ports.                                                              *)
(***************************************************************************)
\* t.type === ToolType.mcp && t.configuration?.connector_id === connectorId
IsAssociated(t, x) == t.type = "mcp" /\ t.connector_id = x

AssociatedTools(reg, x) == {t \in reg : IsAssociated(t, x)}

\* registry.create succeeds when no tool has the id yet
CreateAccepted(reg, id) == \A t \in reg : t.id # id

\* registry.delete succeeds when the tool exists
DeleteAccepted(reg, id) == \E t \in reg : t.id = id

RegistryCreate(reg, tool) == reg \cup {tool}

RegistryDelete(reg, id) == {t \in reg : t.id # id}


(***************************************************************************)
(* The diff of the post-save hook (part_006, lines 68-97).                 *)
(***************************************************************************)
ToolNames(listed) == [i \in 1..Len(listed) |-> listed[i].tool_name]

\* the keys of existingByName, in Map insertion order; `if (name)` drops ''
ExistingKeys(listed) ==
  LET named(n) == n # <<>>
  IN  Dedupe(SelectSeq(ToolNames(listed), named))

\* existingByName.get(name).id: a later entry of the list overwrites an earlier
ExistingId(listed, name) ==
  LET idx == {i \in 1..Len(listed) : listed[i].tool_name = name}
      last == CHOOSE i \in idx : \A j \in idx : j <= i
  IN  listed[last].id

\* previously associated but no longer selected
HookToDelete(listed, sel) ==
  LET deselected(n) == n \notin Range(sel)
      gone == SelectSeq(ExistingKeys(listed), deselected)
  IN  [i \in 1..Len(gone) |-> ExistingId(listed, gone[i])]

\* selected but not yet associated
HookToCreate(listed, sel) ==
  LET absent(n) == n \notin Range(ExistingKeys(listed))
  IN  SelectSeq(Dedupe(sel), absent)

HookNamespace(x) == snakeCase(deriveServerName(ConnectorUrl(x)))

(***************************************************************************)
(* The diff of the tools-update route (mcp_servers.ts, lines 243-258).     *)
(***************************************************************************)
RouteToAdd(listed, newToolIds) ==
  LET absent(n) == n \notin Range(ToolNames(listed))
  IN  SelectSeq(newToolIds, absent)

RouteToRemove(listed, newToolIds) ==
  LET deselected(t) == t.tool_name \notin Range(newToolIds)
      gone == SelectSeq(listed, deselected)
  IN  [i \in 1..Len(gone) |-> gone[i].id]

RouteNamespace(x) == snakeCase(ConnectorName(x))

\* nameToDescription.get(toolName) || `MCP tool: ${toolName}`
RouteDescription(discovered, name) ==
  IF discovered /\ ServerDescription(name) # "" THEN ServerDescription(name)
  ELSE GenericDescription

(***************************************************************************)
(* Steps shared by the handlers.                                           *)
(***************************************************************************)
LogEntry(op, id, name, desc, ok) ==
  [op |-> op, id |-> id, name |-> name, description |-> desc, ok |-> ok]

Logged(r, op, id, name, ok) == [r EXCEPT !.log = Append(@, LogEntry(op, id, name, "", ok))]

LoggedCreate(r, tool, ok) ==
  [r EXCEPT !.log = Append(@, LogEntry("create", tool.id, tool.tool_name, tool.description, ok))]

\* the handler returns or throws; quietEnd: it ends with no other invocation
\* in flight and none begun after it
Finish(p, r, outcome) ==
  [r EXCEPT !.pc = "done", !.outcome = outcome,
            !.quietEnd = (started = p /\ \A q \in 1..(p - 1) : procs[q].pc = "done")]

\* the handler ends in the step that began it
FinishAtOnce(r, outcome) ==
  [r EXCEPT !.pc = "done", !.outcome = outcome, !.quietEnd = r.quietStart]

\* a hook pass for connector x is between its entry and its finally block
HookRunning(x) ==
  \E q \in Procs : /\ procs[q].kind = "hook" /\ procs[q].conn = x
                   /\ procs[q].pc \notin {"idle", "done"}

\* the handler is entered; busy and quietStart record what was in flight then
Begin(p, kind, x, sel) ==
  [IdleProc EXCEPT !.kind = kind, !.conn = x, !.sel = sel,
                   !.busy = HookRunning(x),
                   !.quietStart = (\A q \in 1..(p - 1) : procs[q].pc = "done")]

\* one injected failure is spent
Spend(n) == failures' = failures + n

(***************************************************************************)
(* createAgentBuilderTools, the post-save hook (part_006, lines 46-186).   *)
(***************************************************************************)
\* the entry of the hook with lines 55-58 taken out
HookDecisionUnguarded(inProgress, x, wasSuccessful, sel) ==
  IF ~wasSuccessful \/ ~sel.present \/ Len(sel.items) = 0 THEN "noop" ELSE "run"

\* a guard that is one flag for all connectors
HookDecisionOneFlag(inProgress, x, wasSuccessful, sel) ==
  IF ~wasSuccessful \/ ~sel.present \/ Len(sel.items) = 0 THEN "noop"
  ELSE IF inProgress # {} THEN "skipped"
  ELSE "run"

\* a test on the selection only, the outcome of the save ignored
HookDecisionIgnoresOutcome(inProgress, x, wasSuccessful, sel) ==
  IF ~sel.present \/ Len(sel.items) = 0 THEN "noop"
  ELSE IF x \in inProgress THEN "skipped"
  ELSE "run"

\* lines 52-58: what the hook does on entry
HookDecision(inProgress, x, wasSuccessful, sel) ==
  IF ~wasSuccessful \/ ~sel.present \/ Len(sel.items) = 0 THEN "noop"
  ELSE IF x \in inProgress THEN "skipped"
  ELSE "run"

\* a release placed at the end of the try block instead of in finally
ReleaseOnReturn(r) ==
  IF r.pc = "done" /\ r.outcome # "threw" THEN inProgressConnectorUpdates \ {r.conn}
  ELSE inProgressConnectorUpdates

\* the finally block (lines 183-185): every exit of a pass releases the guard
ReleaseOn(r) ==
  IF r.pc = "done" THEN inProgressConnectorUpdates \ {r.conn}
  ELSE inProgressConnectorUpdates

\* the two loops of lines 99-129 in the other order
HookAdvanceCreatesFirst(p, r) ==
  IF r.toCreate # <<>> THEN [r EXCEPT !.pc = "create"]
  ELSE IF r.toDelete # <<>> THEN [r EXCEPT !.pc = "delete"]
  ELSE IF ~r.actionsAvail THEN Finish(p, r, "returned")
  ELSE [r EXCEPT !.pc = "wbList"]

\* the code after an await of the delete and create loops: the next item,
\* else lines 131-138
HookAdvance(p, r) ==
  IF r.toDelete # <<>> THEN [r EXCEPT !.pc = "delete"]
  ELSE IF r.toCreate # <<>> THEN [r EXCEPT !.pc = "create"]
  ELSE IF ~r.actionsAvail THEN Finish(p, r, "returned")
  ELSE [r EXCEPT !.pc = "wbList"]

\* the loops of lines 99-129 without their catch blocks
HookAfterItemAborts(p, r, ok) ==
  IF ok THEN HookAdvance(p, r) ELSE Finish(p, r, "threw")

\* the catch blocks of lines 104 and 125: log and go on
HookAfterItem(p, r, ok) == HookAdvance(p, r)

HookStep(p, r2) ==
  /\ procs' = [procs EXCEPT ![p] = r2]
  /\ inProgressConnectorUpdates' = ReleaseOn(r2)

\* A save of connector x (the actions framework stores the config when the
\* save succeeds) followed by the hook's entry, up to its first await.
PostSave(p, x, sel, wasSuccessful, actionsAvail) ==
  /\ p = started + 1
  /\ started' = p
  /\ failures + (IF wasSuccessful THEN 0 ELSE 1) + (IF actionsAvail THEN 0 ELSE 1) <= MaxFailures
  /\ Spend((IF wasSuccessful THEN 0 ELSE 1) + (IF actionsAvail THEN 0 ELSE 1))
  /\ connectorConfig' =
       IF wasSuccessful
       THEN [connectorConfig EXCEPT ![x].selected_tools = sel]
       ELSE connectorConfig
  /\ LET r == [Begin(p, "hook", x, sel.items) EXCEPT !.actionsAvail = actionsAvail,
                                                    !.selPresent = sel.present,
                                                    !.wasSuccessful = wasSuccessful]
         d == HookDecision(inProgressConnectorUpdates, x, wasSuccessful, sel)
     IN  IF d = "run"
         THEN /\ inProgressConnectorUpdates' = inProgressConnectorUpdates \cup {x}
              /\ procs' = [procs EXCEPT ![p] =
                             [r EXCEPT !.pc = "list", !.outcome = "running",
                                       !.namespace = HookNamespace(x)]]
         ELSE /\ inProgressConnectorUpdates' = inProgressConnectorUpdates
              /\ procs' = [procs EXCEPT ![p] = [r EXCEPT !.pc = "done", !.outcome = d,
                                                        !.quietEnd = r.quietStart]]
  /\ UNCHANGED registry

\* lines 65-66 and 70: getRegistry or registry.list throws; only finally runs
HookListThrows(p) ==
  /\ procs[p].kind = "hook" /\ procs[p].pc = "list"
  /\ CanFail /\ Spend(1)
  /\ HookStep(p, Finish(p, Logged(procs[p], "list", <<>>, <<>>, FALSE), "threw"))
  /\ UNCHANGED <<registry, connectorConfig, started>>

\* lines 66-97: the registry is listed and the diff computed
HookList(p) ==
  /\ procs[p].kind = "hook" /\ procs[p].pc = "list"
  /\ \E listed \in Perms(AssociatedTools(registry, procs[p].conn)) :
       LET r == Logged(procs[p], "list", <<>>, <<>>, TRUE)
           r1 == [r EXCEPT !.listed = listed,
                           !.toDelete = HookToDelete(listed, r.sel),
                           !.toCreate = HookToCreate(listed, r.sel)]
       IN  HookStep(p, HookAdvance(p, r1))
  /\ UNCHANGED <<registry, connectorConfig, started, failures>>

\* lines 100-108: one registry.delete
HookDelete(p, fail) ==
  /\ procs[p].kind = "hook" /\ procs[p].pc = "delete"
  /\ fail => CanFail
  /\ Spend(IF fail THEN 1 ELSE 0)
  /\ LET r == procs[p]
         id == Head(r.toDelete)
         ok == ~fail /\ DeleteAccepted(registry, id)
         r1 == [Logged(r, "delete", id, <<>>, ok) EXCEPT !.toDelete = Tail(@)]
     IN  /\ registry' = IF ok THEN RegistryDelete(registry, id) ELSE registry
         /\ HookStep(p, HookAfterItem(p, r1, ok))
  /\ UNCHANGED <<connectorConfig, started>>

\* lines 111-129: one registry.create
HookCreate(p, fail) ==
  /\ procs[p].kind = "hook" /\ procs[p].pc = "create"
  /\ fail => CanFail
  /\ Spend(IF fail THEN 1 ELSE 0)
  /\ LET r == procs[p]
         name == Head(r.toCreate)
         tool == Tool(ToolIdOf(r.namespace, name), r.conn, name, GenericDescription)
         ok == ~fail /\ CreateAccepted(registry, tool.id)
         r1 == [LoggedCreate(r, tool, ok) EXCEPT !.toCreate = Tail(@)]
     IN  /\ registry' = IF ok THEN RegistryCreate(registry, tool) ELSE registry
         /\ HookStep(p, HookAfterItem(p, r1, ok))
  /\ UNCHANGED <<connectorConfig, started>>


\* only the ids of the tools the connector has now
MergedIdsFinalOnly(existingIds, finalIds) == finalIds

\* lines 149 and 157: Array.from(new Set([...existingIds, ...finalIds]))
MergedIds(existingIds, finalIds) == existingIds \cup finalIds

\* lines 160-162
NeedUpdate(existingIds, mergedIds) ==
  \/ Cardinality(mergedIds) # Cardinality(existingIds)
  \/ \E id \in mergedIds : id \notin existingIds

\* a failure inside the try of lines 132-178 is caught at line 179
HookWriteBackThrows(p, op) ==
  /\ procs[p].kind = "hook" /\ procs[p].pc \in {"wbList", "wbGet", "wbUpdate"}
  /\ op = procs[p].pc
  /\ CanFail /\ Spend(1)
  /\ HookStep(p, Finish(p, Logged(procs[p], op, <<>>, <<>>, FALSE), "returned"))
  /\ UNCHANGED <<registry, connectorConfig, started>>

\* lines 141-149: the ids of the connector's tools after the creates and deletes
HookWbList(p) ==
  /\ procs[p].kind = "hook" /\ procs[p].pc = "wbList"
  /\ LET r == Logged(procs[p], "wbList", <<>>, <<>>, TRUE)
     IN  HookStep(p, [r EXCEPT !.pc = "wbGet",
                               !.finalIds = {t.id : t \in AssociatedTools(registry, r.conn)}])
  /\ UNCHANGED <<registry, connectorConfig, started, failures>>

\* lines 151-163: the connector is read and the merged list compared
HookWbGet(p) ==
  /\ procs[p].kind = "hook" /\ procs[p].pc = "wbGet"
  /\ LET r == [Logged(procs[p], "wbGet", <<>>, <<>>, TRUE)
                 EXCEPT !.existingConfig = connectorConfig[procs[p].conn]]
         existingIds == r.existingConfig.created_tool_ids
     IN  IF NeedUpdate(existingIds, MergedIds(existingIds, r.finalIds))
         THEN HookStep(p, [r EXCEPT !.pc = "wbUpdate"])
         ELSE HookStep(p, Finish(p, r, "returned"))
  /\ UNCHANGED <<registry, connectorConfig, started, failures>>

\* lines 164-174: actionsClient.update stores {...existingConfig, created_tool_ids}
\* and runs the post-save hook again for the same connector, inside the pass
HookWbUpdate(p) ==
  /\ procs[p].kind = "hook" /\ procs[p].pc = "wbUpdate"
  /\ LET r == procs[p]
         mergedIds == MergedIds(r.existingConfig.created_tool_ids, r.finalIds)
         r1 == [Logged(r, "wbUpdate", <<>>, <<>>, TRUE)
                  EXCEPT !.wrote = TRUE, !.writtenIds = mergedIds,
                         !.nested = HookDecision(inProgressConnectorUpdates, r.conn, TRUE,
                                                 r.existingConfig.selected_tools)]
     IN  /\ connectorConfig' =
               [connectorConfig EXCEPT ![r.conn] =
                  [r.existingConfig EXCEPT !.created_tool_ids = mergedIds]]
         /\ HookStep(p, Finish(p, r1, "returned"))
  /\ UNCHANGED <<registry, started, failures>>

(***************************************************************************)
(* POST /mcp/servers/{id}/tools (mcp_servers.ts, lines 219-315).           *)
(***************************************************************************)
RouteAdvance(p, r) ==
  IF r.toDelete # <<>> THEN [r EXCEPT !.pc = "delete"]
  ELSE IF r.toCreate # <<>> THEN [r EXCEPT !.pc = "create"]
  ELSE Finish(p, r, "ok")

\* the catch blocks of lines 283 and 303: log and go on
RouteAfterItem(p, r, ok) == RouteAdvance(p, r)

\* lines 262-273 without the catch: a failed discovery ends the request
RouteAfterDiscoveryAborts(p, r, ok) ==
  IF ok THEN RouteAdvance(p, [r EXCEPT !.discovered = TRUE]) ELSE Finish(p, r, "error")

\* lines 262-273: a failed discovery leaves the list of descriptions empty
RouteAfterDiscovery(p, r, ok) == RouteAdvance(p, [r EXCEPT !.discovered = ok])

RouteStep(p, r2) ==
  /\ procs' = [procs EXCEPT ![p] = r2]
  /\ UNCHANGED inProgressConnectorUpdates

\* lines 220-241: the request is refused before the registry is read
PostToolsRefused(p, x, newToolIds, fault) ==
  /\ p = started + 1
  /\ started' = p
  /\ \/ /\ fault = "noActions" /\ CanFail /\ Spend(1)
        /\ RouteStep(p, FinishAtOnce(Begin(p, "route", x, newToolIds), "badRequest"))
     \/ /\ fault = "getThrows" /\ CanFail /\ Spend(1)
        /\ RouteStep(p, FinishAtOnce(Begin(p, "route", x, newToolIds), "notFound"))
     \/ /\ fault = "notMcp" /\ ActionTypeId(x) # MCP_CONNECTOR_TYPE_ID
        /\ UNCHANGED failures
        /\ RouteStep(p, FinishAtOnce(Begin(p, "route", x, newToolIds), "badRequest"))
     \/ /\ fault = "listThrows" /\ ActionTypeId(x) = MCP_CONNECTOR_TYPE_ID
        /\ CanFail /\ Spend(1)
        /\ RouteStep(p, FinishAtOnce(Logged(Begin(p, "route", x, newToolIds),
                                              "list", <<>>, <<>>, FALSE), "error"))
  /\ UNCHANGED <<registry, connectorConfig>>

\* lines 220-258: the connector is read, the registry listed, the diff computed
PostTools(p, x, newToolIds) ==
  /\ p = started + 1
  /\ started' = p
  /\ ActionTypeId(x) = MCP_CONNECTOR_TYPE_ID
  /\ \E listed \in Perms(AssociatedTools(registry, x)) :
       LET r == Logged(Begin(p, "route", x, newToolIds), "list", <<>>, <<>>, TRUE)
       IN  RouteStep(p, [r EXCEPT !.pc = "discover", !.outcome = "running",
                                  !.listed = listed,
                                  !.toDelete = RouteToRemove(listed, newToolIds),
                                  !.toCreate = RouteToAdd(listed, newToolIds),
                                  !.namespace = RouteNamespace(x)])
  /\ UNCHANGED <<registry, connectorConfig, failures>>

\* lines 260-276: listTools through the connector executor
RouteDiscover(p, fail) ==
  /\ procs[p].kind = "route" /\ procs[p].pc = "discover"
  /\ fail => CanFail
  /\ Spend(IF fail THEN 1 ELSE 0)
  /\ RouteStep(p, RouteAfterDiscovery(p, Logged(procs[p], "discover", <<>>, <<>>, ~fail), ~fail))
  /\ UNCHANGED <<registry, connectorConfig, started>>

\* lines 279-286: one registry.delete
RouteDelete(p, fail) ==
  /\ procs[p].kind = "route" /\ procs[p].pc = "delete"
  /\ fail => CanFail
  /\ Spend(IF fail THEN 1 ELSE 0)
  /\ LET r == procs[p]
         id == Head(r.toDelete)
         ok == ~fail /\ DeleteAccepted(registry, id)
         r1 == [Logged(r, "delete", id, <<>>, ok) EXCEPT !.toDelete = Tail(@)]
     IN  /\ registry' = IF ok THEN RegistryDelete(registry, id) ELSE registry
         /\ RouteStep(p, RouteAfterItem(p, r1, ok))
  /\ UNCHANGED <<connectorConfig, started>>

\* lines 289-306: one registry.create
RouteCreate(p, fail) ==
  /\ procs[p].kind = "route" /\ procs[p].pc = "create"
  /\ fail => CanFail
  /\ Spend(IF fail THEN 1 ELSE 0)
  /\ LET r == procs[p]
         name == Head(r.toCreate)
         tool == Tool(ToolIdOf(r.namespace, name), r.conn, name,
                      RouteDescription(r.discovered, name))
         ok == ~fail /\ CreateAccepted(registry, tool.id)
         r1 == [LoggedCreate(r, tool, ok) EXCEPT !.toCreate = Tail(@)]
     IN  /\ registry' = IF ok THEN RegistryCreate(registry, tool) ELSE registry
         /\ RouteStep(p, RouteAfterItem(p, r1, ok))
  /\ UNCHANGED <<connectorConfig, started>>

(***************************************************************************)
(* The specification.                                                      *)
(***************************************************************************)
Step ==
  /\ UNCHANGED <<connectors, clientVars, bridgeVars>>
  /\ \E p \in Procs :
       \/ HookListThrows(p)
       \/ HookList(p)
       \/ \E fail \in BOOLEAN : HookDelete(p, fail)
       \/ \E fail \in BOOLEAN : HookCreate(p, fail)
       \/ \E op \in {"wbList", "wbGet", "wbUpdate"} : HookWriteBackThrows(p, op)
       \/ HookWbList(p)
       \/ HookWbGet(p)
       \/ HookWbUpdate(p)
       \/ \E fail \in BOOLEAN : RouteDiscover(p, fail)
       \/ \E fail \in BOOLEAN : RouteDelete(p, fail)
       \/ \E fail \in BOOLEAN : RouteCreate(p, fail)

\* the selections SpecNoFaults draws from
DeepSelections == {<<A, C>>, <<A, B>>}

Invoke ==
  /\ started < MaxPasses
  /\ UNCHANGED <<connectors, clientVars, bridgeVars>>
  /\ \E p \in Procs :
       \/ \E x \in McpConnectors, sel \in SelectedTools, ok, avail \in BOOLEAN :
            PostSave(p, x, sel, ok, avail)
       \/ \E x \in Connectors, sel \in Selections :
            \/ PostTools(p, x, sel)
            \/ \E fault \in {"noActions", "getThrows", "notMcp", "listThrows"} :
                 PostToolsRefused(p, x, sel, fault)

Next == Invoke \/ Step

Spec == Init /\ [][Next]_vars

\* The same handlers when no port fails.
StepNoFaults ==
  /\ UNCHANGED <<connectors, clientVars, bridgeVars>>
  /\ \E p \in Procs :
       \/ HookList(p)
       \/ HookDelete(p, FALSE)
       \/ HookCreate(p, FALSE)
       \/ HookWbList(p)
       \/ HookWbGet(p)
       \/ HookWbUpdate(p)
       \/ RouteDiscover(p, FALSE)
       \/ RouteDelete(p, FALSE)
       \/ RouteCreate(p, FALSE)

InvokeNoFaults ==
  /\ started < DeepPasses
  /\ UNCHANGED <<connectors, clientVars, bridgeVars>>
  /\ \E p \in Procs, x \in McpConnectors, sel \in DeepSelections :
       \/ PostSave(p, x, Selected(sel), TRUE, TRUE)
       \/ PostTools(p, x, sel)

NextNoFaults == InvokeNoFaults \/ StepNoFaults

SpecNoFaults == Init /\ [][NextNoFaults]_vars


(***************************************************************************)
(* Deleting a connector: deleteAssociatedAgentBuilderTools, the            *)
(* post-delete hook (part_006, lines 188-226), and DELETE                  *)
(* /mcp/servers/{id} (mcp_servers.ts, lines 332-389).                      *)
(***************************************************************************)
\* a tool of another type, as the registry holds them beside the MCP tools
OtherTool ==
  [id |-> <<"q">>, type |-> "esql", description |-> "query", connector_id |-> "",
   tool_name |-> <<>>]

\* the filter with the connector test left out
RelatedToolsOfAnyConnector(reg, x) == {t \in reg : t.type = "mcp"}

\* part_006 lines 201-209, mcp_servers.ts lines 358-360
RelatedTools(reg, x) == {t \in reg : t.type = "mcp" /\ t.connector_id = x}

ToolIds(listed) == [i \in 1..Len(listed) |-> listed[i].id]

\* after an await of a delete loop: the next item; then, in the route, the
\* connector's own deletion (lines 371-380) and the response
DelAdvance(p, r) ==
  IF r.toDelete # <<>> THEN [r EXCEPT !.pc = "ddelete"]
  ELSE IF r.kind = "delRoute" /\ r.nested = "none" THEN [r EXCEPT !.pc = "connDelete"]
  ELSE Finish(p, r, IF r.kind = "delRoute" THEN "ok" ELSE "returned")

DelStep(p, r2) ==
  /\ procs' = [procs EXCEPT ![p] = r2]
  /\ UNCHANGED <<inProgressConnectorUpdates, connectorConfig, started>>

\* the connector is deleted through the actions framework, which then runs
\* the post-delete hook (part_006 lines 246-248) up to its first await
PostDelete(p, x) ==
  /\ p = started + 1
  /\ started' = p
  /\ x \in connectors /\ x \in McpConnectors
  /\ connectors' = connectors \ {x}
  /\ procs' = [procs EXCEPT ![p] =
                 [Begin(p, "delHook", x, <<>>) EXCEPT !.pc = "dlist", !.outcome = "running"]]
  /\ UNCHANGED <<registry, connectorConfig, inProgressConnectorUpdates, failures>>

\* part_006 lines 196-209: the registry is listed, the connector's tools kept
DelList(p) ==
  /\ procs[p].pc = "dlist"
  /\ \E listed \in Perms(RelatedTools(registry, procs[p].conn)) :
       LET r == Logged(procs[p], "list", <<>>, <<>>, TRUE)
       IN  DelStep(p, DelAdvance(p, [r EXCEPT !.listed = r.listed \o listed,
                                              !.toDelete = ToolIds(listed)]))
  /\ UNCHANGED <<registry, failures, connectors>>

\* getRegistry or registry.list throws: the catch of line 220 logs it
DelListThrows(p) ==
  /\ procs[p].pc = "dlist"
  /\ CanFail /\ Spend(1)
  /\ DelStep(p, Finish(p, Logged(procs[p], "list", <<>>, <<>>, FALSE),
                       IF procs[p].kind = "delRoute" THEN "ok" ELSE "returned"))
  /\ UNCHANGED <<registry, connectors>>

\* part_006 lines 211-219, mcp_servers.ts lines 362-369: one registry.delete
DelDelete(p, fail) ==
  /\ procs[p].pc = "ddelete"
  /\ fail => CanFail
  /\ Spend(IF fail THEN 1 ELSE 0)
  /\ LET r == procs[p]
         id == Head(r.toDelete)
         ok == ~fail /\ DeleteAccepted(registry, id)
         r1 == [Logged(r, "delete", id, <<>>, ok) EXCEPT !.toDelete = Tail(@)]
     IN  /\ registry' = IF ok THEN RegistryDelete(registry, id) ELSE registry
         /\ DelStep(p, DelAdvance(p, r1))
  /\ UNCHANGED connectors

\* mcp_servers.ts lines 333-353: the request is refused before the registry
\* is read
DeleteServerRefused(p, x, fault) ==
  /\ p = started + 1
  /\ started' = p
  /\ \/ /\ fault = "noActions" /\ CanFail /\ Spend(1)
        /\ procs' = [procs EXCEPT ![p] =
                       FinishAtOnce(Begin(p, "delRoute", x, <<>>), "badRequest")]
     \/ /\ fault = "notFound" /\ x \notin connectors
        /\ UNCHANGED failures
        /\ procs' = [procs EXCEPT ![p] =
                       FinishAtOnce(Begin(p, "delRoute", x, <<>>), "notFound")]
     \/ /\ fault = "notMcp" /\ x \in connectors /\ ActionTypeId(x) # MCP_CONNECTOR_TYPE_ID
        /\ UNCHANGED failures
        /\ procs' = [procs EXCEPT ![p] =
                       FinishAtOnce(Begin(p, "delRoute", x, <<>>), "badRequest")]
  /\ UNCHANGED <<registry, connectorConfig, inProgressConnectorUpdates, connectors>>

\* mcp_servers.ts lines 333-360: the connector is read, the registry listed
DeleteServer(p, x) ==
  /\ p = started + 1
  /\ started' = p
  /\ x \in connectors /\ ActionTypeId(x) = MCP_CONNECTOR_TYPE_ID
  /\ \E listed \in Perms(RelatedTools(registry, x)) :
       LET r == Logged(Begin(p, "delRoute", x, <<>>), "list", <<>>, <<>>, TRUE)
           r1 == [r EXCEPT !.outcome = "running", !.listed = listed,
                           !.toDelete = ToolIds(listed)]
       IN  procs' = [procs EXCEPT ![p] = DelAdvance(p, r1)]
  /\ UNCHANGED <<registry, connectorConfig, inProgressConnectorUpdates, failures, connectors>>

\* mcp_servers.ts lines 371-380: actionsClient.delete; on success the
\* framework runs the post-delete hook inside the request
DelConnector(p, fail) ==
  /\ procs[p].pc = "connDelete"
  /\ fail => CanFail
  /\ Spend(IF fail THEN 1 ELSE 0)
  /\ LET r == procs[p]
         ok == ~fail /\ r.conn \in connectors
     IN  IF ok
         THEN /\ connectors' = connectors \ {r.conn}
              /\ DelStep(p, [Logged(r, "connDelete", <<>>, <<>>, TRUE)
                               EXCEPT !.pc = "dlist", !.nested = "postDelete"])
         ELSE /\ UNCHANGED connectors
              /\ DelStep(p, Finish(p, Logged(r, "connDelete", <<>>, <<>>, FALSE), "customError"))
  /\ UNCHANGED registry

\* the selection the hook and the route are given beside the delete handlers
DeleteSelections == {<<A, C>>}

StepDelete ==
  /\ UNCHANGED <<clientVars, bridgeVars>>
  /\ \/ /\ UNCHANGED connectors
        /\ \E p \in Procs :
             \/ HookList(p)
             \/ HookDelete(p, FALSE)
             \/ HookCreate(p, FALSE)
             \/ HookWbList(p)
             \/ HookWbGet(p)
             \/ HookWbUpdate(p)
             \/ RouteDiscover(p, FALSE)
             \/ RouteDelete(p, FALSE)
             \/ RouteCreate(p, FALSE)
     \/ \E p \in Procs :
          \/ DelList(p)
          \/ DelListThrows(p)
          \/ \E fail \in BOOLEAN : DelDelete(p, fail)
          \/ \E fail \in BOOLEAN : DelConnector(p, fail)

InvokeDelete ==
  /\ started < DeepPasses
  /\ UNCHANGED <<clientVars, bridgeVars>>
  /\ \E p \in Procs, x \in Connectors :
       \/ /\ x \in connectors /\ x \in McpConnectors
          /\ UNCHANGED connectors
          /\ \E sel \in DeleteSelections :
               \/ PostSave(p, x, Selected(sel), TRUE, TRUE)
               \/ PostTools(p, x, sel)
       \/ PostDelete(p, x)
       \/ DeleteServer(p, x)
       \/ \E fault \in {"noActions", "notFound", "notMcp"} : DeleteServerRefused(p, x, fault)

InitDelete ==
  /\ ClientAtRest("sdk")
  /\ BridgeAtRest
  /\ registry = {OtherTool}
  /\ connectorConfig = [x \in McpConnectors |-> [selected_tools |-> Missing, created_tool_ids |-> {}]]
  /\ inProgressConnectorUpdates = {}
  /\ procs = [p \in Procs |-> IdleProc]
  /\ started = 0
  /\ failures = 0
  /\ connectors = Connectors

NextDelete == InvokeDelete \/ StepDelete

SpecDelete == InitDelete /\ [][NextDelete]_vars

(***************************************************************************)
(* JSON-RPC replies as the client receives them.                           *)
(***************************************************************************)
\* one JSON-RPC reply object: {id, error} or {id, result}
Obj(id, isError, version, payload) ==
  [id |-> id, error |-> isError, protocolVersion |-> version, payload |-> payload]

\* response.data: one object, an array of objects, or a string of lines
ObjBody(o) == [t |-> "obj", items |-> <<o>>, lines |-> <<>>]
ArrBody(os) == [t |-> "arr", items |-> os, lines |-> <<>>]
StrBody(ls) == [t |-> "str", items |-> <<>>, lines |-> ls]

\* the text after `data:` on one line: a whole JSON text, the first or second
\* half of one, text that is no JSON, or nothing
Whole(v) == [k |-> "whole", v |-> v]
Head1(v) == [k |-> "head", v |-> v]
Tail1(v) == [k |-> "tail", v |-> v]
Bad == [k |-> "bad", v |-> NoBody]
Empty == [k |-> "empty", v |-> NoBody]

DataLine(f) == [tag |-> "data", frag |-> f]
BlankLine == [tag |-> "blank", frag |-> Empty]
EventLine == [tag |-> "other", frag |-> Empty]

StringHeader(v) == [kind |-> "string", vals |-> <<v>>]
ArrayHeader(vs) == [kind |-> "array", vals |-> vs]

(***************************************************************************)
(* The response handling of McpSdkClient (mcp_sdk_client.ts).              *)
(***************************************************************************)
\* lines 127-141 (and 223-237): the last block of `data:` lines
RECURSIVE SseScan(_, _, _, _)
SseScan(lines, i, current, last) ==
  IF i > Len(lines)
  THEN IF current # <<>> THEN [found |-> TRUE, frags |-> current] ELSE last
  ELSE IF lines[i].tag = "data"
       THEN SseScan(lines, i + 1, Append(current, lines[i].frag), last)
       ELSE IF lines[i].tag = "blank" /\ current # <<>>
            THEN SseScan(lines, i + 1, <<>>, [found |-> TRUE, frags |-> current])
            ELSE SseScan(lines, i + 1, current, last)

\* the first block of `data:` lines instead of the last
FirstDataBlock(lines) ==
  LET data == {i \in 1..Len(lines) : lines[i].tag = "data"}
      first == IF data = {} THEN 0 ELSE CHOOSE i \in data : \A j \in data : i <= j
      ends == {i \in first + 1..Len(lines) : lines[i].tag = "blank"}
      stop == IF ends = {} THEN Len(lines) ELSE CHOOSE i \in ends : \A j \in ends : i <= j
  IN  SseScan(SubSeq(lines, 1, stop), 1, <<>>, [found |-> FALSE, frags |-> <<>>])

LastDataBlock(lines) == SseScan(lines, 1, <<>>, [found |-> FALSE, frags |-> <<>>])

\* current.join('\n') is the empty string
JoinsToEmptyString(frags) == Len(frags) = 1 /\ frags[1].k = "empty"

\* JSON.parse of the joined block
JsonParse(frags) ==
  IF Len(frags) = 1 /\ frags[1].k = "whole" THEN [ok |-> TRUE, value |-> frags[1].v]
  ELSE IF /\ Len(frags) = 2 /\ frags[1].k = "head" /\ frags[2].k = "tail"
          /\ frags[1].v = frags[2].v
       THEN [ok |-> TRUE, value |-> frags[1].v]
       ELSE [ok |-> FALSE, value |-> NoBody]

\* result.toString(): a string is its own text, an object prints as one line
\* without `data:`
BodyText(body) == IF body.t = "str" THEN body.lines ELSE <<EventLine>>

\* lines 121-125
IsSseFramed(resp) ==
  \/ resp.contentType = "sse"
  \/ resp.body.t = "str" /\ \E i \in 1..Len(resp.body.lines) : resp.body.lines[i].tag = "data"

\* the message of the server's error object dropped
UnknownErrorText(o) == "Unknown error"

\* lines 159, 254, 318: result.error.message || 'Unknown error'; the message
\* of an error reply is kept in its payload field
ErrorText(o) == IF o.payload = "" THEN "Unknown error" ELSE o.payload

Failure(why) == [kind |-> "fail", obj |-> Obj(0, FALSE, "none", "none"), error |-> why]

\* lines 126-150
SseDemux(resp) ==
  LET last == LastDataBlock(BodyText(resp.body))
  IN  IF ~last.found \/ JoinsToEmptyString(last.frags)
      THEN [ok |-> FALSE, value |-> NoBody, error |-> "Empty SSE payload"]
      ELSE IF JsonParse(last.frags).ok
           THEN [ok |-> TRUE, value |-> JsonParse(last.frags).value, error |-> "none"]
           ELSE [ok |-> FALSE, value |-> NoBody, error |-> "Invalid SSE JSON payload"]

\* the class and method parse server-sent events
ParsesSse(impl, method) == impl = "sdk" /\ method \in {"initialize", "tools/list"}

\* the array's first element whatever its id
CorrelateFirst(value, requestId) ==
  IF value.t = "arr"
  THEN IF Len(value.items) > 0 THEN [kind |-> "obj", obj |-> value.items[1]]
       ELSE [kind |-> "undefined", obj |-> Obj(0, FALSE, "none", "none")]
  ELSE IF value.t = "obj" THEN [kind |-> "obj", obj |-> value.items[1]]
       ELSE [kind |-> "string", obj |-> Obj(0, FALSE, "none", "none")]

\* lines 154-156: result.find((r) => r.id === requestId) || result[0]
Correlate(value, requestId) ==
  IF value.t = "arr"
  THEN LET hits == {i \in 1..Len(value.items) : value.items[i].id = requestId}
       IN  IF hits # {}
           THEN [kind |-> "obj", obj |-> value.items[CHOOSE i \in hits : \A j \in hits : i <= j]]
           ELSE IF Len(value.items) > 0 THEN [kind |-> "obj", obj |-> value.items[1]]
                ELSE [kind |-> "undefined", obj |-> Obj(0, FALSE, "none", "none")]
  ELSE IF value.t = "obj" THEN [kind |-> "obj", obj |-> value.items[1]]
       ELSE [kind |-> "string", obj |-> Obj(0, FALSE, "none", "none")]

\* lines 120-160 (initialize), 216-256 (doList), 310-319 (callTool): the reply
\* object the method goes on with, or the error it throws
Pick(impl, method, resp, requestId) ==
  IF ~resp.transport THEN Failure("transport")
  ELSE LET sse == ParsesSse(impl, method) /\ IsSseFramed(resp)
           value == IF sse THEN SseDemux(resp).value ELSE resp.body
           c == Correlate(value, requestId)
       IN  IF sse /\ ~SseDemux(resp).ok THEN Failure(SseDemux(resp).error)
           ELSE IF c.kind = "undefined" THEN Failure("TypeError")
           ELSE IF c.kind = "string"
                THEN IF impl = "sdk" THEN Failure("TypeError")
                     ELSE [kind |-> "string", obj |-> c.obj, error |-> "none"]
           ELSE IF c.obj.error THEN Failure(ErrorText(c.obj))
           ELSE [kind |-> "obj", obj |-> c.obj, error |-> "none"]

\* `if (sessionHeader)`
Truthy(h) == h.kind = "array" \/ (h.kind = "string" /\ h.vals[1] # "")

\* Array.isArray(sessionHeader) ? sessionHeader[0] : sessionHeader
HeaderValue(h) == IF Len(h.vals) > 0 THEN h.vals[1] ELSE Undefined

\* the server's version adopted whatever it is
HandshakeAdoptsAny(cl, picked, resp) ==
  LET v == picked.obj.protocolVersion
  IN  [cl EXCEPT
         !.protocolVersion = IF picked.kind = "obj" /\ v # "none" THEN v ELSE @,
         !.sessionId = IF Truthy(resp.session) THEN HeaderValue(resp.session) ELSE @,
         !.initialized = TRUE]

\* every handshake reply replaces both fields, also by nothing
HandshakeLastWins(cl, picked, resp) ==
  LET v == picked.obj.protocolVersion
  IN  [cl EXCEPT
         !.protocolVersion =
            IF picked.kind = "obj" /\ v # "none" /\ v \in SUPPORTED_PROTOCOL_VERSIONS
            THEN v ELSE DEFAULT_NEGOTIATED_PROTOCOL_VERSION,
         !.sessionId = IF Truthy(resp.session) THEN HeaderValue(resp.session)
                       ELSE Undefined,
         !.initialized = TRUE]

\* lines 162-180: the fields after a handshake reply that did not throw
Handshake(cl, picked, resp) ==
  LET v == picked.obj.protocolVersion
  IN  [cl EXCEPT
         !.protocolVersion =
            IF picked.kind = "obj" /\ v # "none" /\ v \in SUPPORTED_PROTOCOL_VERSIONS
            THEN v ELSE @,
         !.sessionId = IF Truthy(resp.session) THEN HeaderValue(resp.session) ELSE @,
         !.initialized = TRUE]

\* lines 257-262 and 321: what listTools and callTool return
ResultOf(method, picked) ==
  IF picked.kind = "obj" THEN [status |-> "ok", payload |-> picked.obj.payload]
  ELSE IF method = "tools/list" THEN [status |-> "ok", payload |-> "no tools"]
       ELSE [status |-> "ok", payload |-> Undefined]

AcceptJson == "application/json"
AcceptBoth == "application/json, text/event-stream"

\* the session header never attached
NoSessionHeaderOf(cl) == "none"

\* `if (this.sessionId)`
SessionHeaderOf(cl) ==
  IF cl.sessionId # Undefined /\ cl.sessionId # "" THEN cl.sessionId ELSE "none"

\* lines 93-118, 197-210, 286-303: the request a method sends
RequestFor(cl, method, id, attempt) ==
  [method |-> method, id |-> id,
   accept |-> IF cl.impl # "sdk" THEN AcceptBoth
              ELSE IF method = "initialize" THEN AcceptBoth
              ELSE IF method = "tools/list" /\ attempt = 2 THEN AcceptBoth
              ELSE AcceptJson,
   version |-> IF method = "initialize"
               THEN IF cl.impl = "sdk" THEN DEFAULT_NEGOTIATED_PROTOCOL_VERSION ELSE "none"
               ELSE cl.protocolVersion,
   session |-> IF method = "initialize" THEN "none" ELSE SessionHeaderOf(cl)]

(***************************************************************************)
(* What a server may answer.                                               *)
(***************************************************************************)
UnsupportedVersion == "1999-01-01"
OtherSupportedVersion == "2024-11-05"

\* the reply to request r, an error reply to it, and replies to other requests
Match(r, v) == Obj(r, FALSE, v, "match")
ErrorReply(r) == Obj(r, TRUE, "none", "tool not found")
SilentErrorReply(r) == Obj(r, TRUE, "none", "")
Other == Obj(0, FALSE, OtherSupportedVersion, "other")
Other2 == Obj(0, FALSE, "none", "other2")

ServerVersions(method) ==
  IF method = "initialize" THEN {"none", "2025-06-18", UnsupportedVersion} ELSE {"none"}

JsonBodies(method, r) ==
  {ObjBody(Match(r, v)) : v \in ServerVersions(method)}
    \cup {ObjBody(ErrorReply(r)),
          ObjBody(SilentErrorReply(r)),
          ArrBody(<<Other, Match(r, "2025-06-18")>>),
          ArrBody(<<Match(r, "2025-06-18"), Other>>),
          ArrBody(<<Other, Other2>>),
          ArrBody(<<>>)}

SseBodies(r) ==
  LET m == ObjBody(Match(r, "2025-06-18"))
  IN  {StrBody(<<EventLine, DataLine(Whole(ObjBody(Other))), BlankLine,
                 EventLine, DataLine(Whole(m)), BlankLine>>),
       StrBody(<<DataLine(Whole(m)), BlankLine, DataLine(Bad), BlankLine>>),
       StrBody(<<EventLine, BlankLine>>),
       StrBody(<<DataLine(Head1(m)), DataLine(Tail1(m))>>),
       StrBody(<<DataLine(Whole(m)), BlankLine, DataLine(Empty), BlankLine>>),
       StrBody(<<DataLine(Whole(ArrBody(<<Other, Match(r, "2025-06-18")>>)))>>),
       StrBody(<<DataLine(Whole(ObjBody(ErrorReply(r))))>>)}

SessionHeaders(method) ==
  IF method = "initialize"
  THEN {NoHeader, StringHeader("s1"), ArrayHeader(<<"s2", "s1">>), StringHeader("")}
  ELSE {NoHeader, StringHeader("s9")}

TransportFailure == [NoResponse EXCEPT !.transport = FALSE]

Responses(method, r) ==
  {TransportFailure}
    \cup {[transport |-> TRUE, contentType |-> "json", body |-> b, session |-> h] :
            b \in JsonBodies(method, r), h \in SessionHeaders(method)}
    \cup {[transport |-> TRUE, contentType |-> ct, body |-> b, session |-> h] :
            ct \in {"json", "sse"}, b \in SseBodies(r), h \in SessionHeaders(method)}
    \cup {[transport |-> TRUE, contentType |-> "sse",
           body |-> ObjBody(Match(r, "2025-06-18")), session |-> h] :
            h \in SessionHeaders(method)}

(***************************************************************************)
(* The client's methods, one call at a time.                               *)
(***************************************************************************)
hookVars ==
  <<registry, connectorConfig, inProgressConnectorUpdates, procs, started, failures,
    connectors>>

Ops == {"initialize", "listTools", "callTool"}

MethodOf(op) ==
  IF op = "listTools" THEN "tools/list"
  ELSE IF op = "callTool" THEN "tools/call" ELSE "initialize"

\* line 88: if (this.initialized) return
AlwaysHandshakes(cl) == FALSE
AlreadyInitialized(cl) == cl.initialized

\* lines 190 and 281: if (!this.initialized) await this.initialize()
NeverNeedsHandshake(cl) == FALSE
NeedsHandshake(cl) == ~cl.initialized

\* listTools and callTool assign no field, whatever the reply
AfterOwnReplyResets(cl, resp, picked) ==
  IF picked.kind = "fail" THEN [cl EXCEPT !.initialized = FALSE] ELSE cl
AfterOwnReplyAdoptsSession(cl, resp, picked) ==
  IF Truthy(resp.session) THEN [cl EXCEPT !.sessionId = HeaderValue(resp.session)] ELSE cl
AfterOwnReply(cl, resp, picked) == cl

\* the session header of a failed handshake's reply kept
AfterFailedHandshakeKeepsSession(cl, resp) ==
  IF resp.transport /\ Truthy(resp.session)
  THEN [cl EXCEPT !.sessionId = HeaderValue(resp.session)] ELSE cl

\* lines 181-185: the catch of initialize logs and rethrows; every throw of
\* the try comes before the first assignment to a field (lines 162-179)
AfterFailedHandshake(cl, resp) == cl

\* generateRequestId(): a fresh id for every request
NextRequestId == wire.requests + 1

Post(w, req) ==
  [w EXCEPT !.requests = @ + 1,
            !.handshakes = @ + (IF req.method = "initialize" THEN 1 ELSE 0),
            !.lastRequest = req]

Received(w, req, resp, result) ==
  [w EXCEPT !.lastFor = req, !.lastResponse = resp, !.lastResult = result]

Settled == \A c \in Calls : calls[c].pc \in {"idle", "done"}

\* a method is entered: it returns at once, sends the handshake, or sends its
\* own request; nothing in either client keeps a second call from entering
\* while another one is awaiting its reply
CallEnter(c, op) ==
  /\ c = wire.issued + 1
  /\ calls[c].pc = "idle"
  /\ LET w == [wire EXCEPT !.issued = c, !.lastFor = NoRequest,
                           !.lastResponse = NoResponse, !.lastResult = NoResult]
         handshake == IF op = "initialize" THEN ~AlreadyInitialized(client)
                      ELSE NeedsHandshake(client)
         first == RequestFor(client, "initialize", NextRequestId, 0)
         own == RequestFor(client, MethodOf(op), NextRequestId, 1)
     IN  IF handshake
         THEN /\ calls' = [calls EXCEPT ![c] = [op |-> op, pc |-> "awaitInit",
                              reqId |-> NextRequestId, attempt |-> 0, status |-> "none",
                              sent |-> first]]
              /\ wire' = Post(w, first)
         ELSE IF op = "initialize"
         THEN /\ calls' = [calls EXCEPT ![c] = [op |-> op, pc |-> "done",
                              reqId |-> 0, attempt |-> 0, status |-> "ok",
                              sent |-> NoRequest]]
              /\ wire' = w
         ELSE /\ calls' = [calls EXCEPT ![c] = [op |-> op, pc |-> "awaitOwn",
                              reqId |-> NextRequestId, attempt |-> 1, status |-> "none",
                              sent |-> own]]
              /\ wire' = Post(w, own)
  /\ UNCHANGED <<client, hookVars, bridgeVars>>

\* one call at a time: the caller awaits each method before the next
CallStart(c, op) ==
  /\ Settled
  /\ CallEnter(c, op)

\* the handshake's reply arrives (lines 120-186); listTools and callTool go on
\* with their own request when initialize() returned
InitReply(c, resp) ==
  /\ calls[c].pc = "awaitInit"
  /\ LET r == calls[c]
         picked == Pick(client.impl, "initialize", resp, r.reqId)
         cl == Handshake(client, picked, resp)
     IN  IF picked.kind = "fail"
         THEN /\ client' = AfterFailedHandshake(client, resp)
              /\ calls' = [calls EXCEPT ![c] = [r EXCEPT !.pc = "done", !.status = "failed"]]
              /\ wire' = Received(wire, r.sent, resp,
                                  [status |-> "failed", payload |-> picked.error])
         ELSE /\ client' = cl
              /\ LET w == [Received(wire, r.sent, resp,
                                    [status |-> "ok", payload |-> "handshake"])
                             EXCEPT !.handshakeOks = @ + 1]
                 IN  IF r.op = "initialize"
                     THEN /\ calls' = [calls EXCEPT ![c] = [r EXCEPT !.pc = "done", !.status = "ok"]]
                          /\ wire' = w
                     ELSE /\ calls' = [calls EXCEPT ![c] =
                                 [r EXCEPT !.pc = "awaitOwn", !.reqId = NextRequestId,
                                           !.attempt = 1,
                                           !.sent = RequestFor(cl, MethodOf(r.op), NextRequestId, 1)]]
                          /\ wire' = Post(w, RequestFor(cl, MethodOf(r.op), NextRequestId, 1))
  /\ UNCHANGED <<hookVars, bridgeVars>>

InitResponse(c) ==
  /\ calls[c].pc = "awaitInit"
  /\ \E resp \in Responses("initialize", calls[c].reqId) : InitReply(c, resp)

\* no second attempt
NeverRetries(impl, op, attempt) == FALSE

\* lines 266-272: only McpSdkClient.listTools tries a second time
Retries(impl, op, attempt) == impl = "sdk" /\ op = "listTools" /\ attempt = 1

\* the reply to tools/list or tools/call arrives (lines 216-277, 305-326)
OwnReply(c, resp) ==
  /\ calls[c].pc = "awaitOwn"
  /\ LET r == calls[c]
         picked == Pick(client.impl, MethodOf(r.op), resp, r.reqId)
         cl == AfterOwnReply(client, resp, picked)
     IN  /\ client' = cl
         /\ IF picked.kind # "fail"
            THEN /\ calls' = [calls EXCEPT ![c] = [r EXCEPT !.pc = "done", !.status = "ok"]]
                 /\ wire' = Received(wire, r.sent, resp,
                                     ResultOf(MethodOf(r.op), picked))
            ELSE IF Retries(client.impl, r.op, r.attempt)
            THEN /\ calls' = [calls EXCEPT ![c] =
                        [r EXCEPT !.reqId = NextRequestId, !.attempt = 2,
                                  !.sent = RequestFor(cl, MethodOf(r.op), NextRequestId, 2)]]
                 /\ wire' = Post(Received(wire, r.sent, resp,
                                          [status |-> "failed", payload |-> picked.error]),
                                 RequestFor(cl, MethodOf(r.op), NextRequestId, 2))
            ELSE /\ calls' = [calls EXCEPT ![c] = [r EXCEPT !.pc = "done", !.status = "failed"]]
                 /\ wire' = Received(wire, r.sent, resp,
                                     [status |-> "failed", payload |-> picked.error])
  /\ UNCHANGED <<hookVars, bridgeVars>>

OwnResponse(c) ==
  /\ calls[c].pc = "awaitOwn"
  /\ \E resp \in Responses(MethodOf(calls[c].op), calls[c].reqId) : OwnReply(c, resp)

Impls == {"sdk", "legacy"}

InitClient ==
  /\ \E impl \in Impls : ClientAtRest(impl)
  /\ BridgeAtRest
  /\ registry = {}
  /\ connectorConfig = [x \in McpConnectors |-> [selected_tools |-> Missing, created_tool_ids |-> {}]]
  /\ inProgressConnectorUpdates = {}
  /\ procs = [p \in Procs |-> IdleProc]
  /\ started = 0
  /\ failures = 0
  /\ connectors = Connectors

NextClient ==
  \/ \E c \in Calls, op \in Ops : CallStart(c, op)
  \/ \E c \in Calls : InitResponse(c)
  \/ \E c \in Calls : OwnResponse(c)

SpecClient == InitClient /\ [][NextClient]_vars

(***************************************************************************)
(* executeMcpTool (discover_tools.ts lines 62-135).                        *)
(***************************************************************************)
\* content items: a text block, a block of another type, and null
TextBlock(t) == [type |-> "text", text |-> t, isNull |-> FALSE]
ImageBlock == [type |-> "image", text |-> <<"x">>, isNull |-> FALSE]
NullBlock == [type |-> "none", text |-> <<>>, isNull |-> TRUE]

Quote(s) == <<"\"">> \o s \o <<"\"">>

\* line 104: JSON.stringify(item), here {"type":"image","data":"x"}
JsonOfBlock(b) ==
  <<"{">> \o Quote(<<"t", "y", "p", "e">>) \o <<":">> \o Quote(<<"i", "m", "a", "g", "e">>)
    \o <<",">> \o Quote(<<"d", "a", "t", "a">>) \o <<":">> \o Quote(b.text) \o <<"}">>

\* every block serialized, text blocks too
BlockTextAlwaysJson(b) == JsonOfBlock(b)
\* lines 100-105: the callback of map
BlockText(b) == IF b.type = "text" THEN b.text ELSE JsonOfBlock(b)

\* lines 99-106: content.map(...).join('\n')
JoinedBlocks(blocks) == Join([i \in 1..Len(blocks) |-> BlockText(blocks[i])], "\n")

\* line 111: JSON.stringify(mcpResult, null, 2)
PrettyJson(data) ==
  LET Member(key, value) == <<" ", " ">> \o Quote(key) \o <<":", " ">> \o Quote(value)
      content == IF data.content.kind = "string"
                 THEN <<Member(<<"c", "o", "n", "t", "e", "n", "t">>, data.content.text)>>
                 ELSE <<>>
      note == IF data.note # <<>> THEN <<Member(<<"n", "o", "t", "e">>, data.note)>> ELSE <<>>
      members == content \o note
  IN  IF data.t = "null" THEN <<"n", "u", "l", "l">>
      ELSE IF members = <<>> THEN <<"{", "}">>
      ELSE IF Len(members) = 1 THEN <<"{", "\n">> \o members[1] \o <<"\n", "}">>
      ELSE <<"{", "\n">> \o members[1] \o <<",", "\n">> \o members[2] \o <<"\n", "}">>

\* line 96: mcpResult?.content is truthy
HasContent(data) ==
  /\ data.t = "obj"
  /\ \/ data.content.kind = "list"
     \/ data.content.kind = "string" /\ data.content.text # <<>>

\* lines 94-112
NormalizedContent(data) ==
  IF HasContent(data)
  THEN IF data.content.kind = "list" THEN JoinedBlocks(data.content.blocks)
       ELSE data.content.text
  ELSE PrettyJson(data)

\* line 101: item.type of a null item throws inside the try block
NormalizationThrows(data) ==
  /\ HasContent(data)
  /\ data.content.kind = "list"
  /\ \E i \in 1..Len(data.content.blocks) : data.content.blocks[i].isNull

\* createErrorResult({message, metadata: {connectorId, toolName}})
ErrorResult(prefix, detail, connectorId, toolName) ==
  [threw |-> FALSE, type |-> "error", prefix |-> prefix, detail |-> detail,
   content |-> <<>>, connectorId |-> connectorId, toolName |-> toolName]

\* lines 114-123
OtherResult(content, connectorId, toolName) ==
  [threw |-> FALSE, type |-> "other", prefix |-> "none", detail |-> "none",
   content |-> content, connectorId |-> connectorId, toolName |-> toolName]

\* the exception leaves the function
CaughtRethrows(connectorId, toolName, message) == [NoReturn EXCEPT !.threw = TRUE]
\* lines 124-134: the catch block
Caught(connectorId, toolName, message) ==
  ErrorResult("Error executing MCP tool", message, connectorId, toolName)

\* lines 68-134: what the function gives back for an outcome of execute
ExecuteReturn(connectorId, toolName, outcome) ==
  IF outcome.kind = "throws" THEN Caught(connectorId, toolName, outcome.message)
  ELSE IF outcome.kind = "error"
  THEN ErrorResult("MCP tool execution failed",
                   IF outcome.message = "" THEN "Unknown error" ELSE outcome.message,
                   connectorId, toolName)
  ELSE IF NormalizationThrows(outcome.data) THEN Caught(connectorId, toolName, "TypeError")
  ELSE OtherResult(NormalizedContent(outcome.data), connectorId, toolName)

MaxBlocks == 2

Blocks == {TextBlock(<<"h", "i">>), TextBlock(<<"o", "k">>), ImageBlock, NullBlock}

BlockLists == UNION {[1..n -> Blocks] : n \in 0..MaxBlocks}

ToolData ==
  {[t |-> "obj", content |-> [kind |-> "list", blocks |-> bs, text |-> <<>>], note |-> <<>>] :
     bs \in BlockLists}
    \cup {[t |-> "obj", content |-> [kind |-> "string", blocks |-> <<>>, text |-> tx], note |-> n] :
            tx \in {<<>>, <<"r", "a", "w">>}, n \in {<<>>, <<"v">>}}
    \cup {[t |-> "obj", content |-> NoContent, note |-> n] : n \in {<<>>, <<"v">>}}
    \cup {NullData}

Outcomes ==
  {[kind |-> "throws", message |-> "socket hang up", data |-> NullData]}
    \cup {[kind |-> "error", message |-> m, data |-> NullData] : m \in {"", "tool not found"}}
    \cup {[kind |-> "ok", message |-> "none", data |-> d] : d \in ToolData}

\* lines 62-78: the function is called and awaits actionsClient.execute
ExecCall(connectorId, toolName) ==
  /\ exec.pc = "idle"
  /\ exec' = [exec EXCEPT !.pc = "awaiting", !.connectorId = connectorId,
                          !.toolName = toolName]
  /\ UNCHANGED <<hookVars, clientVars, conv>>

\* lines 69-134: execute settles and the function returns
ExecSettle ==
  /\ exec.pc = "awaiting"
  /\ \E outcome \in Outcomes :
       exec' = [exec EXCEPT !.pc = "returned", !.outcome = outcome,
                            !.returned = ExecuteReturn(exec.connectorId, exec.toolName, outcome)]
  /\ UNCHANGED <<hookVars, clientVars, conv>>

NextExec ==
  \/ \E x \in McpConnectors, n \in Names : ExecCall(x, n)
  \/ ExecSettle

SpecExec == Init /\ [][NextExec]_vars

(***************************************************************************)
(* convertMcpSchemaToZod (schema_converter.ts lines 13-87).  A schema has  *)
(* at most the one property a; the validator is the zod object built.      *)
(***************************************************************************)
Key == "a"

\* lines 29-75: the switch on prop.type; a property that is a string and not
\* an object has no type
FieldBase(prop) ==
  IF prop.kind # "obj" THEN "any"
  ELSE IF prop.type = "string" THEN "string"
  ELSE IF prop.type \in {"number", "integer"} THEN "number"
  ELSE IF prop.type = "boolean" THEN "boolean"
  ELSE IF prop.type = "array" THEN "array"
  ELSE IF prop.type = "object" THEN "record"
  ELSE "any"

\* lines 50-59: the element validator of an array
FieldItem(prop) ==
  IF prop.kind # "obj" \/ prop.type # "array" THEN "none"
  ELSE IF prop.items = "string" THEN "string"
  ELSE IF prop.items \in {"number", "integer"} THEN "number"
  ELSE IF prop.items = "boolean" THEN "boolean"
  ELSE "any"

\* line 77: inputSchema.required?.includes(key)
IsRequired(schema) == schema.required.kind = "array" /\ Key \in schema.required.names

\* lines 27-82: the field built for the property
FieldFor(schema) ==
  [base |-> FieldBase(schema.prop), item |-> FieldItem(schema.prop),
   optional |-> ~IsRequired(schema),
   description |-> IF schema.prop.kind = "obj" THEN schema.prop.description ELSE "none"]

\* lines 13-87: the validator returned, or the exception of prop.type on null
Convert(schema) ==
  IF schema.type # "object" THEN [NoValidator EXCEPT !.made = TRUE]
  ELSE IF ~schema.hasProperties \/ schema.prop.kind = "absent"
  THEN [NoValidator EXCEPT !.made = TRUE]
  ELSE IF schema.prop.kind = "null" THEN [NoValidator EXCEPT !.threw = TRUE]
  ELSE [threw |-> FALSE, made |-> TRUE, keys |-> {Key}, field |-> FieldFor(schema)]

\* the values an argument may have; absent is a missing key
Values ==
  {"absent", "null", "str", "int", "frac", "bool", "arrEmpty", "arrStr", "arrNum", "obj"}

\* zod: what z.string(), z.number(), z.boolean(), z.array(item), z.record(z.any())
\* and z.any() accept, and .optional() on top of them
ElementsAccepted(item, v) ==
  \/ v = "arrEmpty"
  \/ item = "any" /\ v \in {"arrStr", "arrNum"}
  \/ item = "string" /\ v = "arrStr"
  \/ item = "number" /\ v = "arrNum"

FieldAccepts(f, v) ==
  IF f.base = "any" THEN TRUE
  ELSE IF v = "absent" THEN f.optional
  ELSE IF f.base = "string" THEN v = "str"
  ELSE IF f.base = "number" THEN v \in {"int", "frac"}
  ELSE IF f.base = "boolean" THEN v = "bool"
  ELSE IF f.base = "array" THEN ElementsAccepted(f.item, v)
  ELSE v = "obj"

\* zod: z.object(shape).safeParse(args).success; keys outside the shape are
\* dropped, not rejected
Accepts(validator, args) == Key \in validator.keys => FieldAccepts(validator.field, args.a)

\* zod: the parsed value keeps the keys of the shape
Parsed(validator, args) ==
  [a |-> IF Key \in validator.keys THEN args.a ELSE "absent", other |-> "absent"]

PropTypes == {"string", "number", "integer", "boolean", "array", "object", "date", "none"}
ItemTypes == {"string", "number", "integer", "boolean", "date", "none"}

Props ==
  {[kind |-> "obj", type |-> t, items |-> "none", description |-> d] :
     t \in PropTypes \ {"array"}, d \in {"none", "doc"}}
    \cup {[kind |-> "obj", type |-> "array", items |-> i, description |-> d] :
            i \in ItemTypes, d \in {"none", "doc"}}
    \cup {[NoProp EXCEPT !.kind = k] : k \in {"null", "string", "absent"}}

Requireds ==
  {[kind |-> "absent", names |-> {}]}
    \cup {[kind |-> "array", names |-> ns] : ns \in {{}, {Key}, {"b"}}}

Schemas ==
  {[kind |-> "object", type |-> "object", hasProperties |-> TRUE, prop |-> pr, required |-> rq] :
     pr \in Props, rq \in Requireds}
    \cup {[kind |-> "object", type |-> ty, hasProperties |-> hp,
           prop |-> [kind |-> "obj", type |-> "string", items |-> "none", description |-> "none"],
           required |-> [kind |-> "array", names |-> {Key}]] :
            ty \in {"object", "string", "none"}, hp \in BOOLEAN}

\* the tool type calls the converter on a discovered tool's inputSchema
ConvertSchema ==
  /\ conv.pc = "idle"
  /\ conv' = [conv EXCEPT !.pc = "converted", !.out = Convert(conv.schema)]
  /\ UNCHANGED <<hookVars, clientVars, exec>>

\* the validator is applied to the arguments of a call
ParseArgs ==
  /\ conv.pc = "converted"
  /\ conv.out.made
  /\ \E v \in Values, w \in {"absent", "str"} :
       LET args == [a |-> v, other |-> w]
       IN  conv' = [conv EXCEPT !.pc = "parsed", !.args = args,
                                !.accepted = Accepts(conv.out, args),
                                !.parsed = Parsed(conv.out, args)]
  /\ UNCHANGED <<hookVars, clientVars, exec>>

InitConv ==
  /\ ClientAtRest("sdk")
  /\ exec = IdleExec
  /\ \E schema \in Schemas : conv = [IdleConv EXCEPT !.schema = schema]
  /\ registry = {}
  /\ connectorConfig = [x \in McpConnectors |-> [selected_tools |-> Missing, created_tool_ids |-> {}]]
  /\ inProgressConnectorUpdates = {}
  /\ procs = [p \in Procs |-> IdleProc]
  /\ started = 0
  /\ failures = 0
  /\ connectors = Connectors

NextConv == ConvertSchema \/ ParseArgs

SpecConv == InitConv /\ [][NextConv]_vars

(***************************************************************************)
(* Views of an invocation's log, used by the properties below.             *)
(***************************************************************************)
Entries(p, op) == {e \in Range(procs[p].log) : e.op = op}

IsDone(p) == procs[p].pc = "done"

\* the invocation read the registry and computed its diff
Diffed(p) == \E e \in Entries(p, "list") : e.ok

\* a pass: an invocation that got as far as its diff and has ended
PassDone(p) == IsDone(p) /\ Diffed(p)

IssuedCreateNames(p) == {e.name : e \in Entries(p, "create")}
IssuedCreateIds(p) == {e.id : e \in Entries(p, "create")}
IssuedDeleteIds(p) == {e.id : e \in Entries(p, "delete")}

\* what the pass saw in the registry for its connector
SeenTools(p) == Range(procs[p].listed)
SeenNames(p) == {t.tool_name : t \in SeenTools(p)}
SelectedNames(p) == Range(procs[p].sel)

(***************************************************************************)
(* C1: in one pass, the names create is issued for are exactly the         *)
(* selected names that no existing tool of the connector has, the tools    *)
(* delete is issued for are exactly the existing tools whose name is not   *)
(* selected, and a tool both selected and existing is left alone.          *)
(***************************************************************************)
C1_DiffIsExact ==
  \A p \in Procs :
    PassDone(p) =>
      /\ IssuedCreateNames(p) = SelectedNames(p) \ SeenNames(p)
      /\ IssuedDeleteIds(p) = {t.id : t \in {u \in SeenTools(p) : u.tool_name \notin SelectedNames(p)}}
      /\ \A t \in SeenTools(p) :
           t.tool_name \in SelectedNames(p) =>
             t.id \notin IssuedDeleteIds(p) /\ t.tool_name \notin IssuedCreateNames(p)

(***************************************************************************)
(* C2: a hook invocation for connector X entered while an earlier hook     *)
(* pass for X is still in flight does nothing: it issues no registry list, *)
(* create or delete and writes no connector config, so at most one pass    *)
(* per connector is ever running, whatever the interleaving.               *)
(***************************************************************************)
RunningHooks(x) ==
  {p \in Procs : /\ procs[p].kind = "hook" /\ procs[p].conn = x
                 /\ procs[p].pc \notin {"idle", "done"}}

EnteredWhileBusy(p) ==
  /\ procs[p].kind = "hook" /\ procs[p].busy
  /\ procs[p].wasSuccessful /\ procs[p].selPresent /\ procs[p].sel # <<>>

C2_LaterCallIsNoOp ==
  /\ \A x \in Connectors : Cardinality(RunningHooks(x)) <= 1
  /\ \A p \in Procs :
       EnteredWhileBusy(p) =>
         /\ procs[p].outcome = "skipped"
         /\ procs[p].log = <<>>
         /\ ~procs[p].wrote

\* a second call was made while the first pass was running, and the first
\* pass has since run to its end
C2_Witness ==
  \E p, q \in Procs :
    /\ p < q /\ EnteredWhileBusy(q)
    /\ procs[p].kind = "hook" /\ procs[p].conn = procs[q].conn
    /\ procs[p].outcome = "returned" /\ procs[p].wrote

(***************************************************************************)
(* C3: the in-progress set holds exactly the connectors with a hook pass   *)
(* between its entry and its exit, on every exit path; a hook invocation   *)
(* is skipped only when a pass for its connector was running at its entry; *)
(* and a connector in the set eventually leaves it.                        *)
(***************************************************************************)
GuardIsExact ==
  inProgressConnectorUpdates = {x \in Connectors : RunningHooks(x) # {}}

SkippedOnlyWhenBusy ==
  \A p \in Procs : procs[p].outcome = "skipped" => procs[p].busy

C3_GuardAlwaysReleased ==
  /\ [](GuardIsExact /\ SkippedOnlyWhenBusy)
  /\ \A x \in McpConnectors :
       (x \in inProgressConnectorUpdates) ~> (x \notin inProgressConnectorUpdates)

\* a pass ended by a throw of registry.list, and a later hook invocation for
\* the same connector was let in
C3_Witness ==
  \E p, q \in Procs :
    /\ p < q
    /\ procs[p].kind = "hook" /\ procs[p].outcome = "threw"
    /\ procs[q].kind = "hook" /\ procs[q].conn = procs[p].conn
    /\ ~procs[q].busy /\ Diffed(q)
    /\ procs[p].conn \notin inProgressConnectorUpdates

\* every pending await of a handler settles, so a handler that can take a
\* step eventually takes one
FairSpec == Spec /\ WF_vars(Step)

(***************************************************************************)
(* C4: after a pass that ran alone and in which every operation succeeded, *)
(* the names of the tools the registry holds for the connector are exactly *)
(* the selected names, the empty selection included.                       *)
(***************************************************************************)
\* invocation p was given a selection, ran alone with every operation
\* succeeding, and nothing was invoked since
CleanPass(p) ==
  /\ IsDone(p) /\ started = p
  /\ procs[p].quietStart /\ procs[p].quietEnd
  /\ procs[p].wasSuccessful /\ procs[p].selPresent
  /\ procs[p].outcome \in {"noop", "returned", "ok"}
  /\ \A e \in Range(procs[p].log) : e.ok

HeldNames(x) == {t.tool_name : t \in AssociatedTools(registry, x)}

C4_RegistryMatchesSelection ==
  \A p \in Procs : CleanPass(p) => HeldNames(procs[p].conn) = SelectedNames(p)

(***************************************************************************)
(* C5: the id list a pass writes to the connector configuration is exactly *)
(* the ids of the tools the connector owns after the creates and deletes.  *)
(***************************************************************************)
C5_WrittenIdsAreOwnedIds ==
  \A p \in Procs : procs[p].wrote => procs[p].writtenIds = procs[p].finalIds

(***************************************************************************)
(* C6: when the hook is called twice in a row for the same connector with  *)
(* the same selection, nothing else running before, between or during the  *)
(* two calls, the second call issues no registry.create, no                *)
(* registry.delete and no connector config write.                          *)
(***************************************************************************)
TwiceInARow(p, q) ==
  /\ q = p + 1
  /\ procs[p].kind = "hook" /\ procs[q].kind = "hook"
  /\ procs[p].conn = procs[q].conn
  /\ procs[p].sel = procs[q].sel /\ procs[p].selPresent = procs[q].selPresent
  /\ procs[p].wasSuccessful /\ procs[q].wasSuccessful
  /\ IsDone(p) /\ procs[p].quietStart /\ procs[p].quietEnd
  /\ IsDone(q) /\ procs[q].quietStart /\ procs[q].quietEnd

C6_SecondPassIsQuiet ==
  \A p, q \in Procs :
    TwiceInARow(p, q) =>
      /\ Entries(q, "create") = {}
      /\ Entries(q, "delete") = {}
      /\ ~procs[q].wrote

(***************************************************************************)
(* C7 as stated: when discovery of the server's capabilities fails during  *)
(* a pass, the pass issues no registry.create and no registry.delete.      *)
(***************************************************************************)
DiscoveryFailed(p) == \E e \in Entries(p, "discover") : ~e.ok

C8_DeletesBeforeCreates ==
  \A p \in Procs :
    \A i, j \in 1..Len(procs[p].log) :
      (procs[p].log[i].op = "create" /\ procs[p].log[j].op = "delete") => j < i

\* a hook pass that deleted a deselected tool and then created a selected one
C8_Witness ==
  \E p \in Procs :
    /\ procs[p].kind = "hook" /\ IsDone(p)
    /\ \E i, j \in 1..Len(procs[p].log) :
         i < j /\ procs[p].log[i].op = "delete" /\ procs[p].log[j].op = "create"

(***************************************************************************)
(* C9: a failed registry.delete or registry.create does not end the pass:  *)
(* every item of the diff is still attempted, the hook still reaches its   *)
(* write-back step, and the handler does not throw.                        *)
(***************************************************************************)
DiffDeletes(p) ==
  IF procs[p].kind = "hook" THEN Range(HookToDelete(procs[p].listed, procs[p].sel))
  ELSE Range(RouteToRemove(procs[p].listed, procs[p].sel))

DiffCreates(p) ==
  IF procs[p].kind = "hook" THEN Range(HookToCreate(procs[p].listed, procs[p].sel))
  ELSE Range(RouteToAdd(procs[p].listed, procs[p].sel))

ItemFailed(p) == \E e \in Entries(p, "delete") \cup Entries(p, "create") : ~e.ok

C9_ItemFailureIsNotFatal ==
  \A p \in Procs :
    (IsDone(p) /\ ItemFailed(p)) =>
      /\ IssuedDeleteIds(p) = DiffDeletes(p)
      /\ IssuedCreateNames(p) = DiffCreates(p)
      /\ procs[p].outcome \in {"returned", "ok"}
      /\ (procs[p].kind = "hook" /\ procs[p].actionsAvail) => Entries(p, "wbList") # {}

\* a hook pass whose delete failed went on to its create and to the write
C9_Witness ==
  \E p \in Procs :
    /\ procs[p].kind = "hook" /\ IsDone(p) /\ procs[p].wrote
    /\ \E i, j \in 1..Len(procs[p].log) :
         /\ i < j
         /\ procs[p].log[i].op = "delete" /\ ~procs[p].log[i].ok
         /\ procs[p].log[j].op = "create"

(***************************************************************************)
(* C10: any two creates for the same connector and capability name, in any *)
(* run and through either the hook or the route, use the same tool id.     *)
(***************************************************************************)
C10_IdIsFunctionOfPair ==
  \A p, q \in Procs :
    \A e \in Entries(p, "create"), f \in Entries(q, "create") :
      (procs[p].conn = procs[q].conn /\ e.name = f.name) => e.id = f.id

(***************************************************************************)
(* C11: two creates for different (connector, capability name) pairs never *)
(* use the same tool id; in particular two connectors selecting a          *)
(* capability of the same name get different ids.                          *)
(***************************************************************************)
C11_IdsAreCollisionFree ==
  \A p, q \in Procs :
    \A e \in Entries(p, "create"), f \in Entries(q, "create") :
      (procs[p].conn # procs[q].conn \/ e.name # f.name) => e.id # f.id

(***************************************************************************)
(* C12: when a connector is deleted, through the post-delete hook or the   *)
(* DELETE route, with nothing else running and every registry.delete       *)
(* succeeding, no MCP tool of that connector remains afterwards; and the   *)
(* handler removes no tool of another connector or of another type: every  *)
(* id it passes to registry.delete is the id of a listed MCP tool of the   *)
(* connector, and every tool its steps take out of the registry is one.    *)
(***************************************************************************)
IsDelete(p) == procs[p].kind \in {"delHook", "delRoute"}

\* the delete handler p began with nothing in flight and nothing began since
DeleteRanAlone(p) == IsDelete(p) /\ procs[p].quietStart /\ started = p

DeleteSucceeded(p) ==
  /\ IsDone(p) /\ procs[p].outcome \in {"returned", "ok"}
  /\ \A e \in Range(procs[p].log) : e.ok

NoToolLeft ==
  \A p \in Procs :
    (DeleteRanAlone(p) /\ DeleteSucceeded(p)) => RelatedTools(registry, procs[p].conn) = {}

DeletesOnlyListed ==
  \A p \in Procs :
    IsDelete(p) =>
      \A e \in Entries(p, "delete") :
        \E t \in SeenTools(p) :
          t.id = e.id /\ t.type = "mcp" /\ t.connector_id = procs[p].conn

RemovesOnlyOwn ==
  \A p \in Procs :
    (DeleteRanAlone(p) /\ started' = p) =>
      \A t \in registry \ registry' : t.type = "mcp" /\ t.connector_id = procs[p].conn

ReturnedAtOnce(c) ==
  calls[c].op = "initialize" /\ calls[c].pc = "done" /\ calls[c].reqId = 0

\* this step enters initialize() on an initialized client
EntersInitializeWhenInitialized ==
  /\ client.initialized
  /\ \E c \in Calls : calls[c].pc = "idle" /\ calls'[c].pc # "idle" /\ calls'[c].op = "initialize"

\* C13: with calls made one at a time, at most one handshake succeeds and the
\* client is initialized exactly when one did; after it no handshake request is
\* sent, and an initialize call on the initialized client sends no request
\* and leaves every field of the client as it was.
C13_InitializeIsIdempotent ==
  /\ [](wire.handshakeOks <= 1 /\ (client.initialized <=> wire.handshakeOks = 1))
  /\ [][/\ client.initialized => wire'.handshakes = wire.handshakes
        /\ EntersInitializeWhenInitialized =>
             /\ client' = client
             /\ wire'.requests = wire.requests
             /\ \E c \in Calls : calls[c].pc = "idle" /\ ReturnedAtOnce(c)']_vars

C13_Witness ==
  /\ wire.handshakeOks = 1
  /\ wire.handshakes = 2
  /\ \E c \in Calls : ReturnedAtOnce(c)

\* C14: no step takes the initialized flag from true to false, whether the
\* call it belongs to succeeds or fails.
C14_InitializedIsMonotonic == [][client.initialized => client'.initialized]_vars

C14_Witness ==
  /\ client.initialized
  /\ \E c \in Calls : calls[c].op # "initialize" /\ calls[c].status = "failed"
  /\ wire.lastFor.method \in {"tools/list", "tools/call"}

\* this step handled the reply to a request of the given methods
Handled(methods) ==
  /\ wire'.lastResponse # NoResponse
  /\ wire'.lastFor.method \in methods
  /\ \E c \in Calls : calls'[c] # calls[c] /\ calls[c].pc \in {"awaitInit", "awaitOwn"}

\* C15: the session token is unset on a client whose handshake has not
\* succeeded; a step changes it only by handling a handshake reply that carries
\* an mcp-session-id header, and then to the (first) value of that header; the
\* replies to tools/list and tools/call never change it, and a handshake reply
\* without the header leaves it as it was.
C15_SessionSetOnlyByHandshake ==
  /\ [](~client.initialized => client.sessionId = Undefined)
  /\ [][/\ client'.sessionId # client.sessionId =>
             /\ Handled({"initialize"})
             /\ wire'.lastResponse.session.kind # "absent"
             /\ client'.sessionId = wire'.lastResponse.session.vals[1]
        /\ Handled({"tools/list", "tools/call"}) => client'.sessionId = client.sessionId
        /\ Handled({"initialize"}) /\ wire'.lastResponse.session.kind = "absent" =>
             client'.sessionId = client.sessionId]_vars

C15_Witness ==
  /\ client.sessionId = "s2"
  /\ wire.lastFor.method = "tools/list"
  /\ wire.lastResponse.session = StringHeader("s9")
  /\ wire.lastRequest.session = "s2"

\* the last reply handled was a JSON array with at least one entry
ArrayReply ==
  /\ wire.lastResponse.transport
  /\ wire.lastResponse.contentType = "json"
  /\ wire.lastResponse.body.t = "arr"
  /\ Len(wire.lastResponse.body.items) > 0

\* the entry of that array the claim says is used
EntryById ==
  LET items == wire.lastResponse.body.items
      hits == {i \in 1..Len(items) : items[i].id = wire.lastFor.id}
  IN  IF hits # {} THEN items[CHOOSE i \in hits : TRUE] ELSE items[1]

\* the outcome of the call is the outcome that entry gives
OutcomeIsOf(entry) ==
  IF entry.error THEN wire.lastResult.status = "failed"
  ELSE IF wire.lastFor.method = "initialize"
       THEN /\ wire.lastResult = [status |-> "ok", payload |-> "handshake"]
            /\ client.protocolVersion = entry.protocolVersion
       ELSE wire.lastResult = [status |-> "ok", payload |-> entry.payload]

\* C16: for initialize, tools/list and tools/call, a reply that is an array is
\* answered from the entry whose id is the request's id wherever it stands in
\* the array, and from the first entry only when no entry has that id.
C16_IdCorrelationBeatsOrder == ArrayReply => OutcomeIsOf(EntryById)

C16_Witness ==
  /\ ArrayReply
  /\ wire.lastFor.method = "tools/call"
  /\ Len(wire.lastResponse.body.items) = 2
  /\ wire.lastResponse.body.items[1].id # wire.lastFor.id
  /\ wire.lastResponse.body.items[2].id = wire.lastFor.id
  /\ wire.lastResult = [status |-> "ok", payload |-> "match"]

\* the last reply handled was server-sent-event framed, in a method of
\* McpSdkClient that reads event streams
SseReply ==
  /\ client.impl = "sdk"
  /\ wire.lastFor.method \in {"initialize", "tools/list"}
  /\ wire.lastResponse.transport
  /\ IsSseFramed(wire.lastResponse)

\* the data lines of the stream's last block: those after the last blank line
\* that stands before the last data line
LastBlockOfStream ==
  LET lines == wire.lastResponse.body.lines
      data == {i \in 1..Len(lines) : lines[i].tag = "data"}
      e == CHOOSE i \in data : \A j \in data : j <= i
      blanks == {i \in 1..e : lines[i].tag = "blank"}
      b == IF blanks = {} THEN 0 ELSE CHOOSE i \in blanks : \A j \in blanks : j <= i
      IsData(l) == l.tag = "data"
      block == SelectSeq(SubSeq(lines, b + 1, e), IsData)
  IN  IF data = {} THEN <<>> ELSE [i \in 1..Len(block) |-> block[i].frag]

\* C17: McpSdkClient answers an event-stream reply to initialize or
\* tools/list from the JSON text of the stream's last data block alone; when
\* the stream has no data block, or the last block is no JSON text, handling
\* the reply fails and nothing is returned from it.
C17_LastDataBlockWins ==
  SseReply =>
    IF LastBlockOfStream = <<>> \/ ~JsonParse(LastBlockOfStream).ok
    THEN wire.lastResult.status = "failed"
    ELSE OutcomeIsOf(Correlate(JsonParse(LastBlockOfStream).value, wire.lastFor.id).obj)

C17_Witness ==
  /\ SseReply
  /\ wire.lastFor.method = "tools/list"
  /\ Len(LastBlockOfStream) = 1
  /\ Cardinality({i \in 1..Len(wire.lastResponse.body.lines) :
                    wire.lastResponse.body.lines[i].tag = "data"}) = 2
  /\ Len(wire.lastResponse.body.lines) >= 2
  /\ wire.lastResponse.body.lines[2] = DataLine(Whole(ObjBody(Other)))
  /\ wire.lastResult = [status |-> "ok", payload |-> "match"]

\* the last reply handled was an event-stream reply to tools/call whose last
\* data block is a JSON text
SseCallReply ==
  /\ wire.lastFor.method = "tools/call"
  /\ wire.lastResponse.transport
  /\ IsSseFramed(wire.lastResponse)
  /\ LastBlockOfStream # <<>>
  /\ JsonParse(LastBlockOfStream).ok

\* C18: callTool resolves an event-stream reply to the JSON-RPC object of the
\* stream's last data block, as initialize does, and returns that object's
\* result or fails with its error.
C18_CallToolDemuxesSse ==
  SseCallReply =>
    OutcomeIsOf(Correlate(JsonParse(LastBlockOfStream).value, wire.lastFor.id).obj)

\* the version a handshake reply that is one JSON object carries
CarriedVersion == wire'.lastResponse.body.items[1].protocolVersion

\* this step handled a handshake reply that is one JSON object without error
HandledPlainHandshake ==
  /\ Handled({"initialize"})
  /\ wire'.lastResponse.transport
  /\ wire'.lastResponse.contentType = "json"
  /\ wire'.lastResponse.body.t = "obj"
  /\ ~wire'.lastResponse.body.items[1].error

\* C19: the negotiated version is the default or a supported version; a
\* handshake reply with a supported version makes it the negotiated one, and a
\* reply with an unsupported version or none leaves the default and still
\* initializes the client.
C19_VersionIsDefaultOrSupported ==
  /\ [](client.protocolVersion \in
          {DEFAULT_NEGOTIATED_PROTOCOL_VERSION} \cup SUPPORTED_PROTOCOL_VERSIONS)
  /\ [][HandledPlainHandshake =>
          /\ client'.initialized
          /\ client'.protocolVersion =
               IF CarriedVersion \in SUPPORTED_PROTOCOL_VERSIONS THEN CarriedVersion
               ELSE DEFAULT_NEGOTIATED_PROTOCOL_VERSION]_vars

C19_Witness ==
  /\ client.initialized
  /\ client.protocolVersion = DEFAULT_NEGOTIATED_PROTOCOL_VERSION
  /\ wire.lastFor.method = "initialize"
  /\ wire.lastResponse.body.t = "obj"
  /\ wire.lastResponse.body.items[1].protocolVersion = UnsupportedVersion

\* this step enters listTools or callTool on a client that is not initialized
EntersToolCallUninitialized ==
  /\ ~client.initialized
  /\ \E c \in Calls : /\ calls[c].pc = "idle" /\ calls'[c].pc # "idle"
                      /\ calls'[c].op \in {"listTools", "callTool"}

\* this step sends a tools/list or tools/call request
SendsToolRequest ==
  /\ wire'.requests > wire.requests
  /\ wire'.lastRequest.method \in {"tools/list", "tools/call"}

\* C20: listTools and callTool on a client that is not initialized send the
\* handshake first; a tools/list or tools/call request is sent only by a
\* client whose handshake has succeeded; when the automatic handshake fails
\* the call fails and its own request is never sent.
C20_NoToolRequestBeforeHandshake ==
  [][/\ EntersToolCallUninitialized =>
          /\ wire'.lastRequest.method = "initialize"
          /\ wire'.handshakes = wire.handshakes + 1
          /\ wire'.requests = wire.requests + 1
     /\ SendsToolRequest => client'.initialized /\ wire'.handshakeOks >= 1
     /\ Handled({"initialize"}) /\ wire'.lastResult.status = "failed" =>
          /\ wire'.requests = wire.requests
          /\ \E c \in Calls : /\ calls[c].pc = "awaitInit"
                              /\ calls'[c].pc = "done" /\ calls'[c].status = "failed"]_vars

C20_Witness ==
  /\ ~client.initialized
  /\ wire.requests = 1
  /\ wire.lastFor.method = "initialize"
  /\ \E c \in Calls : calls[c].op = "callTool" /\ calls[c].pc = "done" /\ calls[c].status = "failed"

\* the listTools call of McpSdkClient whose tools/list reply this step handles
ListReplyHandled(c) ==
  /\ client.impl = "sdk"
  /\ calls[c].op = "listTools"
  /\ calls[c].pc = "awaitOwn"
  /\ calls'[c] # calls[c]

\* this step sends one tools/list request with the given Accept header
SendsList(accept) ==
  /\ wire'.requests = wire.requests + 1
  /\ wire'.lastRequest.method = "tools/list"
  /\ wire'.lastRequest.accept = accept

\* C21: McpSdkClient.listTools sends tools/list with Accept application/json
\* first; it sends one more tools/list request, with Accept application/json,
\* text/event-stream, exactly when the first attempt failed; a call sends at
\* most two tools/list requests, and the outcome of the second attempt is the
\* outcome of the call.
C21_ListRetriesOnceWithBroadAccept ==
  /\ [](\A c \in Calls : calls[c].attempt <= 2)
  /\ [][\A c \in Calls :
          /\ (client.impl = "sdk" /\ calls'[c].op = "listTools"
                /\ calls'[c].attempt = 1 /\ calls[c].attempt = 0
                /\ calls'[c].pc = "awaitOwn") => SendsList(AcceptJson)
          /\ ListReplyHandled(c) /\ calls[c].attempt = 1 =>
               IF wire'.lastResult.status = "failed"
               THEN /\ SendsList(AcceptBoth)
                    /\ calls'[c].pc = "awaitOwn" /\ calls'[c].attempt = 2
               ELSE /\ wire'.requests = wire.requests
                    /\ calls'[c].pc = "done" /\ calls'[c].status = "ok"
          /\ ListReplyHandled(c) /\ calls[c].attempt = 2 =>
               /\ wire'.requests = wire.requests
               /\ calls'[c].pc = "done"
               /\ calls'[c].status = wire'.lastResult.status]_vars

C21_Witness ==
  /\ client.impl = "sdk"
  /\ wire.lastRequest.method = "tools/list"
  /\ wire.lastRequest.accept = AcceptBoth
  /\ wire.lastResult = [status |-> "ok", payload |-> "match"]
  /\ \E c \in Calls : /\ calls[c].op = "listTools" /\ calls[c].attempt = 2
                      /\ calls[c].pc = "done" /\ calls[c].status = "ok"

\* the request sent last is a tools/list or tools/call request
ToolRequestSent == wire.lastRequest.method \in {"tools/list", "tools/call"}

\* C22: a tools/list or tools/call request carries mcp-protocol-version with
\* the client's negotiated version, and carries mcp-session-id exactly when a
\* session token was captured, with the token as its value.
C22_ToolRequestsCarryVersionAndSession ==
  ToolRequestSent =>
    /\ wire.lastRequest.version = client.protocolVersion
    /\ wire.lastRequest.session # "none" <=> client.sessionId # Undefined
    /\ client.sessionId # Undefined => wire.lastRequest.session = client.sessionId

C22_Witness ==
  /\ wire.lastRequest.method = "tools/call"
  /\ client.sessionId = "s1"
  /\ wire.lastRequest.session = "s1"
  /\ client.protocolVersion = "2025-06-18"
  /\ wire.lastRequest.version = "2025-06-18"

\* the last reply handled was a JSON reply to tools/call: one object, or an
\* array with at least one entry
JsonCallReply ==
  /\ wire.lastFor.method = "tools/call"
  /\ wire.lastResponse.transport
  /\ wire.lastResponse.contentType = "json"
  /\ \/ wire.lastResponse.body.t = "obj"
     \/ wire.lastResponse.body.t = "arr" /\ Len(wire.lastResponse.body.items) > 0

\* C23: callTool fails with the server's error message when the correlated
\* reply to tools/call is a JSON-RPC error, and returns the reply's result
\* payload as it is otherwise.
C23_CallToolErrorOrPayload ==
  JsonCallReply =>
    LET entry == EntryById
    IN  IF entry.error
        THEN /\ wire.lastResult.status = "failed"
             /\ entry.payload # "" => wire.lastResult.payload = entry.payload
        ELSE wire.lastResult = [status |-> "ok", payload |-> entry.payload]

C23_Witness ==
  /\ JsonCallReply
  /\ wire.lastResponse.body.t = "obj"
  /\ wire.lastResponse.body.items[1].error
  /\ wire.lastResult = [status |-> "failed", payload |-> "tool not found"]

(***************************************************************************)
(* Properties of executeMcpTool.                                           *)
(***************************************************************************)
\* the call failed: execute rejected, returned status error, or the result
\* could not be normalized
ExecFailed ==
  /\ exec.pc = "returned"
  /\ \/ exec.outcome.kind \in {"throws", "error"}
     \/ NormalizationThrows(exec.outcome.data)

\* C24: executeMcpTool never throws; when the execution returns status error
\* or throws, the caller gets an error result whose metadata holds the tool
\* name and the connector id of the call.
C24_ExecuteNeverThrows ==
  /\ ~exec.returned.threw
  /\ ExecFailed =>
       /\ exec.returned.type = "error"
       /\ exec.returned.toolName = exec.toolName
       /\ exec.returned.connectorId = exec.connectorId
       /\ exec.outcome.kind = "error" /\ exec.outcome.message # "" =>
            exec.returned.detail = exec.outcome.message

C24_Witness ==
  /\ exec.pc = "returned"
  /\ exec.outcome.kind = "throws"
  /\ exec.returned.type = "error"
  /\ exec.returned.toolName = B
  /\ exec.returned.connectorId = "Y"

\* what a block contributes according to the claim
Piece(b) == IF b.type = "text" THEN b.text ELSE JsonOfBlock(b)

\* the pieces of the blocks in order, a newline between neighbours
RECURSIVE PiecesInOrder(_)
PiecesInOrder(blocks) ==
  IF blocks = <<>> THEN <<>>
  ELSE IF Len(blocks) = 1 THEN Piece(blocks[1])
  ELSE Piece(blocks[1]) \o <<"\n">> \o PiecesInOrder(Tail(blocks))

\* the call returned a normalized result
ExecNormalized == exec.pc = "returned" /\ exec.returned.type = "other"

\* C25: for a result with a list of content blocks the normalized content is
\* the blocks in order, a text block giving its text and any other block its
\* JSON text, joined by newlines; for a result without content it is the
\* pretty-printed JSON of the whole result.
C25_ContentIsNormalized ==
  ExecNormalized =>
    /\ exec.outcome.data.content.kind = "list" =>
         exec.returned.content = PiecesInOrder(exec.outcome.data.content.blocks)
    /\ exec.outcome.data.content.kind = "absent" =>
         exec.returned.content = PrettyJson(exec.outcome.data)

C25_Witness ==
  /\ ExecNormalized
  /\ exec.outcome.data.content.kind = "list"
  /\ exec.outcome.data.content.blocks = <<TextBlock(<<"h", "i">>), ImageBlock>>
  /\ exec.returned.content = <<"h", "i", "\n">> \o JsonOfBlock(ImageBlock)

(***************************************************************************)
(* Properties of convertMcpSchemaToZod.                                    *)
(***************************************************************************)
\* arguments were parsed by the validator of an object schema with property a
ParsedWithProperty ==
  /\ conv.pc = "parsed"
  /\ conv.schema.type = "object"
  /\ conv.schema.hasProperties
  /\ conv.schema.prop.kind = "obj"

\* the value is of the JSON-Schema scalar type
OfScalarType(type, v) ==
  \/ type = "string" /\ v = "str"
  \/ type = "number" /\ v \in {"int", "frac"}
  \/ type = "integer" /\ v = "int"
  \/ type = "boolean" /\ v = "bool"

\* C26: in the validator of an object schema a property is mandatory exactly
\* when required lists its name, and a property of type string, number,
\* integer or boolean accepts only values of that scalar type.
C26_ValidatorMatchesSchema ==
  ParsedWithProperty =>
    /\ conv.args.a = "absent" =>
         (conv.accepted <=>
            ~(conv.schema.required.kind = "array" /\ Key \in conv.schema.required.names))
    /\ conv.schema.prop.type \in {"string", "number", "integer", "boolean"}
         /\ conv.args.a # "absent" /\ conv.accepted =>
         OfScalarType(conv.schema.prop.type, conv.args.a)

\* C27: convertMcpSchemaToZod returns a validator for every schema and never
\* throws; a top-level type other than object gives the empty object
\* validator and a property of unknown type gives a field that accepts
\* anything.
C27_ConverterIsTotal ==
  conv.pc # "idle" =>
    /\ ~conv.out.threw
    /\ conv.out.made
    /\ conv.schema.type # "object" => conv.out.keys = {}
    /\ (conv.schema.type = "object" /\ conv.schema.hasProperties
          /\ conv.schema.prop.kind = "obj" /\ conv.schema.prop.type \in {"date", "none"}) =>
         conv.out.field.base = "any"

(***************************************************************************)
(* Further properties of the reconcile pass.                               *)
(***************************************************************************)
\* the place of a capability name in lexicographic order
NameRank(n) == IF n = A THEN 1 ELSE IF n = B THEN 2 ELSE 3

\* the capability name a registry operation of the log is about: the name
\* created, or the last part of the id deleted
NameOfEntry(e) == IF e.op = "create" THEN e.name ELSE <<e.id[Len(e.id)]>>

\* C28: in a pass of the post-save hook the deletes, and likewise the
\* creates, are issued in lexicographic order of capability name, whatever
\* the order of the selection array and of the registry listing.
C28_OperationsInNameOrder ==
  \A p \in Procs :
    procs[p].kind = "hook" =>
      \A i, j \in 1..Len(procs[p].log) :
        (/\ i < j
         /\ procs[p].log[i].op \in {"delete", "create"}
         /\ procs[p].log[i].op = procs[p].log[j].op) =>
          NameRank(NameOfEntry(procs[p].log[i])) <= NameRank(NameOfEntry(procs[p].log[j]))

\* the config writes of a pass
ConfigWrites(p) == {i \in 1..Len(procs[p].log) : procs[p].log[i].op = "wbUpdate" /\ procs[p].log[i].ok}

\* C29: the connector update of the write-back step calls the post-save hook
\* again for the same connector while the pass holds the guard; that nested
\* call never starts a pass (it is skipped by the guard whenever the saved
\* config has a selection), so a pass writes the connector config at most
\* once and starts no further pass.
C29_WriteBackDoesNotReenter ==
  \A p \in Procs :
    procs[p].kind = "hook" =>
      /\ Cardinality(ConfigWrites(p)) <= 1
      /\ procs[p].wrote <=> ConfigWrites(p) # {}
      /\ ~procs[p].wrote => procs[p].nested = "none"
      /\ procs[p].wrote =>
           /\ procs[p].nested \in {"skipped", "noop"}
           /\ (procs[p].existingConfig.selected_tools.present
                 /\ procs[p].existingConfig.selected_tools.items # <<>>) =>
                procs[p].nested = "skipped"

C29_Witness ==
  \E p \in Procs :
    /\ procs[p].kind = "hook" /\ procs[p].outcome = "returned"
    /\ procs[p].wrote /\ procs[p].nested = "skipped"
    /\ procs[p].conn \notin inProgressConnectorUpdates

\* this step enters the post-save hook as invocation p, after a successful
\* save with a non-empty selection
EntersHook(p) ==
  /\ procs[p].pc = "idle"
  /\ procs'[p].kind = "hook"
  /\ procs'[p].wasSuccessful /\ procs'[p].selPresent /\ procs'[p].sel # <<>>

\* this step ends a running hook pass for connector x
EndsPassFor(x) ==
  \E p \in Procs : /\ procs[p].kind = "hook" /\ procs[p].conn = x
                   /\ procs[p].pc \notin {"idle", "done"}
                   /\ procs'[p].pc = "done"

\* C30: the guard is keyed by connector id: a hook invocation is skipped only
\* for a pass in flight for its own connector, so with none in flight for it
\* the pass starts whatever other connectors are in flight; and the end of a
\* pass takes its own connector, and nothing else, out of the in-progress set.
C30_GuardIsPerConnector ==
  /\ [](\A p \in Procs :
          (procs[p].kind = "hook" /\ procs[p].outcome = "skipped") =>
             \E q \in 1..(p - 1) : procs[q].kind = "hook" /\ procs[q].conn = procs[p].conn)
  /\ [][/\ \A p \in Procs :
             EntersHook(p) /\ procs'[p].conn \notin inProgressConnectorUpdates =>
               /\ procs'[p].outcome = "running"
               /\ inProgressConnectorUpdates' =
                    inProgressConnectorUpdates \cup {procs'[p].conn}
        /\ \A x \in inProgressConnectorUpdates \ inProgressConnectorUpdates' :
             /\ EndsPassFor(x)
             /\ inProgressConnectorUpdates' = inProgressConnectorUpdates \ {x}]_vars

C30_Witness ==
  \E p, q \in Procs :
    /\ p < q
    /\ procs[p].kind = "hook" /\ procs[p].conn = "X" /\ procs[p].outcome = "returned"
    /\ procs[p].log # <<>>
    /\ procs[q].kind = "hook" /\ procs[q].conn = "Y" /\ procs[q].outcome = "running"
    /\ ~procs[q].quietStart
    /\ inProgressConnectorUpdates = {"Y"}


(***************************************************************************)
(* Overlapping calls on one client: a method may be entered while another  *)
(* is still awaiting its reply (mcp_sdk_client.ts lines 87-187, part_001   *)
(* lines 82-140: the only test on entry is this.initialized).              *)
(***************************************************************************)
RaceCalls == 2

\* the replies of the catalogue that tell the overlapping handshakes apart:
\* plain object replies with every version and session header, an error reply
\* carrying a session header, and a transport failure
RaceResponses(method, r) ==
  {resp \in Responses(method, r) :
     \/ ~resp.transport
     \/ /\ resp.contentType = "json"
        /\ \/ \E v \in ServerVersions(method) : resp.body = ObjBody(Match(r, v))
           \/ resp.body = ObjBody(ErrorReply(r)) /\ resp.session # StringHeader("")}

RaceInitResponse(c) ==
  /\ calls[c].pc = "awaitInit"
  /\ \E resp \in RaceResponses("initialize", calls[c].reqId) : InitReply(c, resp)

RaceOwnResponse(c) ==
  /\ calls[c].pc = "awaitOwn"
  /\ \E resp \in RaceResponses(MethodOf(calls[c].op), calls[c].reqId) : OwnReply(c, resp)

NextRace ==
  \/ \E c \in 1..RaceCalls, op \in Ops : CallEnter(c, op)
  \/ \E c \in 1..RaceCalls : RaceInitResponse(c)
  \/ \E c \in 1..RaceCalls : RaceOwnResponse(c)

SpecRace == InitClient /\ [][NextRace]_vars

\* the second of exactly two handshakes is answered successfully: both were
\* sent before either answer was processed, since a processed success closes
\* the entry test
LastOfTwoHandshakes ==
  /\ wire.handshakes = 2
  /\ wire'.handshakes = 2
  /\ wire.handshakeOks = 1
  /\ wire'.handshakeOks = 2

\* the session token and the supported protocol version a plain handshake
\* reply carries, if any
TokenOf(resp) == IF Truthy(resp.session) THEN HeaderValue(resp.session) ELSE Undefined
VersionOf(resp) ==
  LET v == resp.body.items[1].protocolVersion
  IN  IF v \in SUPPORTED_PROTOCOL_VERSIONS THEN v ELSE Undefined

\* handshakes awaiting their replies at the same time have their own requests
OwnHandshakeRequests ==
  \A c, d \in Calls :
    (c # d /\ calls[c].pc = "awaitInit" /\ calls[d].pc = "awaitInit")
      => /\ calls[c].reqId # calls[d].reqId
         /\ calls[c].sent.method = "initialize"
         /\ calls[d].sent.method = "initialize"
         /\ wire.handshakes >= 2

\* C31 as stated: two handshakes sent on the same uninitialized client each
\* carry their own request, and once the reply processed last has been handled
\* the client holds the session token and the protocol version of that reply
\* (no token and the default version when that reply carries none).
C31_LastHandshakeWins ==
  /\ []OwnHandshakeRequests
  /\ [][LastOfTwoHandshakes =>
          /\ client'.sessionId = TokenOf(wire'.lastResponse)
          /\ client'.protocolVersion =
                IF VersionOf(wire'.lastResponse) # Undefined
                THEN VersionOf(wire'.lastResponse)
                ELSE DEFAULT_NEGOTIATED_PROTOCOL_VERSION]_vars

\* C31 amended: two handshakes sent on the same uninitialized client each
\* carry their own request; the reply processed last replaces the session
\* token only if it carries a non-empty session header and the protocol
\* version only if it carries a supported one, and what it does not carry
\* stays as the reply processed first left it.
C31_LastCarriedValueWins ==
  /\ []OwnHandshakeRequests
  /\ [][LastOfTwoHandshakes =>
          /\ client'.initialized
          /\ client'.sessionId =
                IF TokenOf(wire'.lastResponse) # Undefined
                THEN TokenOf(wire'.lastResponse) ELSE client.sessionId
          /\ client'.protocolVersion =
                IF VersionOf(wire'.lastResponse) # Undefined
                THEN VersionOf(wire'.lastResponse) ELSE client.protocolVersion]_vars

\* the handshake sent first is answered last, and its token replaces the one
\* of the handshake sent second
C31_Witness ==
  /\ wire.handshakes = 2
  /\ wire.handshakeOks = 2
  /\ calls[1].status = "ok"
  /\ calls[2].status = "ok"
  /\ wire.lastFor.method = "initialize"
  /\ wire.lastFor.id = 1
  /\ wire.lastResponse.session = ArrayHeader(<<"s2", "s1">>)
  /\ client.sessionId = "s2"


\* the kinds of handshake reply that make initialize fail: no reply at all, an
\* event stream without a parseable last data block, a JSON-RPC error object
TransportFailed(resp) == ~resp.transport
UnparseableSse(resp) ==
  resp.transport /\ resp.body.t = "str" /\ IsSseFramed(resp) /\ ~SseDemux(resp).ok
ErrorResponse(resp) ==
  resp.transport /\ resp.contentType = "json" /\ resp.body.t = "obj"
    /\ resp.body.items[1].error

\* the last reply handled answered a handshake and is of one of these kinds
FailingHandshakeHandled ==
  /\ wire.lastFor.method = "initialize"
  /\ wire.lastResponse # NoResponse
  /\ \/ TransportFailed(wire.lastResponse)
     \/ UnparseableSse(wire.lastResponse)
     \/ ErrorResponse(wire.lastResponse)

\* this step enters a method on a client that is not initialized
EntersUninitialized ==
  /\ ~client.initialized
  /\ \E c \in Calls : calls[c].pc = "idle" /\ calls'[c].pc # "idle"

\* the last reply handled answered a handshake
HandshakeHandled == wire.lastFor.method = "initialize" /\ wire.lastResponse # NoResponse

\* C32: a failed handshake leaves the client as constructed (not initialized,
\* the default protocol version, no session token), whatever made it fail; a
\* transport failure and a JSON-RPC error response, with or without a session
\* header, fail it on both clients and an unparseable SSE payload fails it on
\* the client that parses SSE; the next method entered on a client that is
\* not initialized sends a new handshake request.
C32_FailedInitializeLeavesClientUnchanged ==
  /\ []((HandshakeHandled /\ wire.lastResult.status = "failed")
          => client = NewClient(client.impl))
  /\ []((FailingHandshakeHandled
           /\ (UnparseableSse(wire.lastResponse) => ParsesSse(client.impl, "initialize")))
          => wire.lastResult.status = "failed")
  /\ [][EntersUninitialized =>
          /\ wire'.handshakes = wire.handshakes + 1
          /\ wire'.lastRequest.method = "initialize"
          /\ wire'.lastRequest.id = wire.requests + 1]_vars

\* a first handshake failed, the next call sent a second one, and that one was
\* answered by an error response carrying a session header
C32_Witness ==
  /\ client = NewClient("sdk")
  /\ calls[1].status = "failed"
  /\ calls[2].status = "failed"
  /\ wire.handshakes = 2
  /\ wire.lastFor.method = "initialize"
  /\ wire.lastFor.id = 2
  /\ ErrorResponse(wire.lastResponse)
  /\ wire.lastResponse.session = StringHeader("s1")


\* the hook invocation of p is one for a save that was not successful, or with
\* a missing or empty selection, in state r
VoidCall(r) ==
  r.kind = "hook" /\ (~r.wasSuccessful \/ ~r.selPresent \/ r.sel = <<>>)

\* C33: a hook invocation for a save that was not successful, or with a
\* missing or empty selected_tools, returns at once: it never lists, creates
\* or deletes in the registry and never writes the connector config, and the
\* step in which it is entered leaves the registry, the recorded id lists and
\* the in-progress set as they were (the config changes only by the save
\* itself, when that succeeded).
C33_VoidCallIsNoOp ==
  /\ [](\A p \in Procs :
          VoidCall(procs[p]) =>
            /\ procs[p].pc = "done"
            /\ procs[p].outcome = "noop"
            /\ procs[p].log = <<>>
            /\ ~procs[p].wrote)
  /\ [][\A p \in Procs :
          (procs[p].pc = "idle" /\ VoidCall(procs'[p])) =>
            /\ registry' = registry
            /\ inProgressConnectorUpdates' = inProgressConnectorUpdates
            /\ \A x \in McpConnectors :
                 connectorConfig'[x].created_tool_ids = connectorConfig[x].created_tool_ids
            /\ ~procs'[p].wasSuccessful => connectorConfig' = connectorConfig]_vars

\* the hook returned at once for a failed save with a selection while a pass
\* for the same connector was in flight, and the connector is still in the set
C33_Witness ==
  \E p \in Procs :
    /\ procs[p].kind = "hook"
    /\ ~procs[p].wasSuccessful
    /\ procs[p].sel = <<A, C>>
    /\ procs[p].outcome = "noop"
    /\ procs[p].conn \in inProgressConnectorUpdates
    /\ procs[p].busy

\* this step is the config write of pass p
WritesConfig(p) ==
  procs[p].kind = "hook" /\ procs[p].pc = "wbUpdate" /\ procs'[p].wrote

\* this step is the comparison of pass p (lines 151-163)
ComparesIds(p) ==
  procs[p].kind = "hook" /\ procs[p].pc = "wbGet" /\ procs'[p].pc # "wbGet"
    /\ procs'[p].outcome # "threw" /\ Len(procs'[p].log) > 0
    /\ procs'[p].log[Len(procs'[p].log)].ok

SeededTools == {Tool(ToolIdOf(HookNamespace("X"), n), "X", n, GenericDescription) : n \in {A, C}}

InitSeeded ==
  /\ ClientAtRest("sdk")
  /\ BridgeAtRest
  /\ registry = SeededTools
  /\ connectorConfig =
       [x \in McpConnectors |->
          IF x = "X"
          THEN [selected_tools |-> Selected(<<A, C>>),
                created_tool_ids |-> {t.id : t \in SeededTools}]
          ELSE [selected_tools |-> Missing, created_tool_ids |-> {}]]
  /\ inProgressConnectorUpdates = {}
  /\ procs = [p \in Procs |-> IdleProc]
  /\ started = 0
  /\ failures = 0
  /\ connectors = Connectors

SpecSeeded == InitSeeded /\ [][NextNoFaults]_vars

\* this step is a registry.delete of the hook or of the tools-update route
DeleteStep(p) ==
  procs[p].kind \in {"hook", "route"} /\ procs[p].pc = "delete" /\ procs'[p] # procs[p]

\* C35: every id a pass for connector X hands to registry.delete is the id of
\* a tool of type mcp of X in the listing the pass took, and a delete step of
\* the pass takes only tools of type mcp of X out of the registry and changes
\* no other entry.
C35_DeletesOnlyOwnTools ==
  /\ [](\A p \in Procs :
          procs[p].kind \in {"hook", "route"} =>
            \A e \in Entries(p, "delete") :
              \E t \in SeenTools(p) : t.id = e.id /\ IsAssociated(t, procs[p].conn))
  /\ [][\A p \in Procs :
          DeleteStep(p) =>
            /\ registry' \subseteq registry
            /\ \A t \in registry \ registry' : IsAssociated(t, procs[p].conn)]_vars

\* invocations p and q are tools-update requests for one connector, and q was
\* received while p was running
OverlappingRequests(p, q) ==
  /\ p < q
  /\ procs[p].kind = "route" /\ procs[q].kind = "route"
  /\ procs[p].conn = procs[q].conn
  /\ \A o \in 1..(q - 1) : o # p => procs[o].quietEnd
  /\ ~procs[q].quietStart

\* the names of the tools the registry holds for connector x
ProjectedNames(x) == {t.tool_name : t \in AssociatedTools(registry, x)}

\* C36: two tools-update requests for one connector that overlap never both
\* issue registry.create for the same tool id, and once both have answered,
\* nothing else running meanwhile, the names of the connector's tools in the
\* registry are the selection of one of the two.
C36_OverlappingRequestsDoNotCollide ==
  \A p, q \in Procs :
    OverlappingRequests(p, q) =>
      /\ {e.id : e \in Entries(p, "create")} \cap {e.id : e \in Entries(q, "create")} = {}
      /\ (IsDone(p) /\ IsDone(q) /\ started = q) =>
            \/ ProjectedNames(procs[p].conn) = SelectedNames(p)
            \/ ProjectedNames(procs[p].conn) = SelectedNames(q)
=============================================================================
